---- MODULE Spec2Model ----
(***************************************************************************)
(* The dynamic-schema record store of telcell: the serializer registry     *)
(* (telcell/data/serialization.py), flattening and unflattening of item    *)
(* dictionaries, and the sqlite-backed collection with its views           *)
(* (telcell/data/collection_sqlite.py, telcell/data/measurement_sqlite.py).*)
(*                                                                         *)
(* Representation.                                                         *)
(*   A key of a dictionary is a sequence of "_"-separated tokens:          *)
(*   "x_int" is <<"x", "int">>.  A column name (a flat key) is a sequence  *)
(*   of "."-separated keys: "x.a_int" is << <<"x">>, <<"a", "int">> >>.    *)
(*   A Python value is a record [t |-> type, v |-> payload]; a dict is a   *)
(*   function from keys to values, enumerated in the order of KeyOrder.    *)
(*   A float is its number of tenths (15 is 1.5), a datetime and a         *)
(*   timedelta are a number of seconds.                                    *)
(***************************************************************************)
EXTENDS Integers, Sequences, FiniteSets, TLC

VARIABLES
    fields,         \* SqliteCollection._fields of the root collection
    table_columns,  \* the columns of the root table (name -> declared type)
    table_rows,     \* the rows of the root table, in rowid order
    indexes,        \* the columns of the root table that _create_index indexed
    views,          \* the collections derived by _create_view
    added,          \* history: the items for which add returned normally
    ret,            \* what the last operation returned or raised
    arg             \* the input of the serialization round trip under test

vars == <<fields, table_columns, table_rows, indexes, views, added, ret, arg>>

(***************************************************************************)
(* Bounds of the model.                                                    *)
(***************************************************************************)
MaxRows == 3
MaxViewRows == 2
MaxViews == 2

(***************************************************************************)
(* Python values.                                                          *)
(***************************************************************************)
None == [t |-> "None", v |-> 0]
PyStr(s) == [t |-> "str", v |-> s]
PyInt(n) == [t |-> "int", v |-> n]
PyFloat(n) == [t |-> "float", v |-> n]
PyBool(b) == [t |-> "bool", v |-> b]
DateTime(n) == [t |-> "datetime", v |-> n]
\* a datetime with tzinfo: n seconds on the clock of a zone offset seconds
\* ahead of UTC
DateTimeTz(n, offset) == [t |-> "datetime", v |-> n, utcoffset |-> offset]
TimeDelta(n) == [t |-> "timedelta", v |-> n]
Angle(n) == [t |-> "Angle", v |-> n]
WgsPoint(lat, lon) == [t |-> "Point", v |-> <<lat, lon>>]
Cell(radio, identifier) == [t |-> "CellIdentity", v |-> <<radio, identifier>>]
Dict(f) == [t |-> "dict", v |-> f]
Properties(f) == [t |-> "Properties", v |-> f]
LocationInfo(f) == [t |-> "LocationInfo", v |-> f]
EmptyMap == [k \in {} |-> None]
\* a list, by the text str gives of it
PyList(text) == [t |-> "list", v |-> text]

\* isinstance(value, dict): Properties and LocationInfo subclass dict
IsDict(value) == value.t \in {"dict", "Properties", "LocationInfo"}

\* the number a bool, an int or a float is, in tenths
IsNumber(value) == value.t \in {"bool", "int", "float"}
TenthsOf(value) ==
    CASE value.t = "bool" -> IF value.v THEN 10 ELSE 0
      [] value.t = "int" -> value.v * 10
      [] value.t = "float" -> value.v

\* ==: two dicts are equal when they hold equal values under the same keys,
\* whatever their classes; bool, int and float compare as numbers; other
\* values compare by type and payload
RECURSIVE PyEq(_, _)
PyEq(a, b) ==
    IF IsDict(a) /\ IsDict(b)
    THEN /\ DOMAIN a.v = DOMAIN b.v
         /\ \A k \in DOMAIN a.v : PyEq(a.v[k], b.v[k])
    ELSE IF IsNumber(a) /\ IsNumber(b) THEN TenthsOf(a) = TenthsOf(b)
    ELSE a = b

(***************************************************************************)
(* Text conversions.  A table lists the texts of the values of the model;  *)
(* parsing a text that is in no table raises ValueError.                   *)
(***************************************************************************)
FloatText == (15 :> "1.5") @@ (50 :> "5.0") @@ (520 :> "52.0") @@ (900 :> "90.0")
IntText == (5 :> "5") @@ (10 :> "10") @@ (12 :> "12")
IsoText == (0 :> "2023-01-01T00:00:00") @@ (60 :> "2023-01-01T00:01:00")
              @@ (120 :> "2023-01-01T00:02:00")
IsoTextTz ==
    (<<1800, 0>> :> "2023-01-01T00:30:00+00:00")
        @@ (<<3600, 0>> :> "2023-01-01T01:00:00+00:00")
        @@ (<<5400, 0>> :> "2023-01-01T01:30:00+00:00")
        @@ (<<3600, 3600>> :> "2023-01-01T01:00:00+01:00")
        @@ (<<10800, 3600>> :> "2023-01-01T03:00:00+01:00")

\* str(float)
StrOfFloat(n) == FloatText[n]

\* float(value) of a str, an int or a float; "" is no error
FloatOf(value) ==
    CASE value.t = "float" -> [err |-> "", value |-> value]
      [] value.t = "int" -> [err |-> "", value |-> PyFloat(value.v * 10)]
      [] value.t = "str" ->
            IF \E n \in DOMAIN FloatText : FloatText[n] = value.v
            THEN [err |-> "",
                  value |-> PyFloat(CHOOSE n \in DOMAIN FloatText : FloatText[n] = value.v)]
            ELSE IF \E n \in DOMAIN IntText : IntText[n] = value.v
            THEN [err |-> "",
                  value |-> PyFloat(10 * (CHOOSE n \in DOMAIN IntText : IntText[n] = value.v))]
            ELSE [err |-> "ValueError", value |-> None]
      [] OTHER -> [err |-> "TypeError", value |-> None]

\* int(value) of a str, an int or a float
IntOf(value) ==
    CASE value.t = "int" -> [err |-> "", value |-> value]
      [] value.t = "bool" -> [err |-> "", value |-> PyInt(IF value.v THEN 1 ELSE 0)]
      [] value.t = "float" -> [err |-> "", value |-> PyInt(value.v \div 10)]
      [] value.t = "str" ->
            IF \E n \in DOMAIN IntText : IntText[n] = value.v
            THEN [err |-> "",
                  value |-> PyInt(CHOOSE n \in DOMAIN IntText : IntText[n] = value.v)]
            ELSE [err |-> "ValueError", value |-> None]
      [] OTHER -> [err |-> "TypeError", value |-> None]

\* datetime.isoformat()
IsoFormat(value) ==
    IF "utcoffset" \in DOMAIN value THEN IsoTextTz[<<value.v, value.utcoffset>>]
    ELSE IsoText[value.v]

\* datetime.fromisoformat(value)
FromIsoFormat(value) ==
    IF value.t # "str" THEN [err |-> "TypeError", value |-> None]
    ELSE IF \E n \in DOMAIN IsoText : IsoText[n] = value.v
    THEN [err |-> "",
          value |-> DateTime(CHOOSE n \in DOMAIN IsoText : IsoText[n] = value.v)]
    ELSE IF \E n \in DOMAIN IsoTextTz : IsoTextTz[n] = value.v
    THEN [err |-> "",
          value |-> LET n == CHOOSE n \in DOMAIN IsoTextTz : IsoTextTz[n] = value.v
                    IN  DateTimeTz(n[1], n[2])]
    ELSE [err |-> "ValueError", value |-> None]

\* str(timedelta.total_seconds()): whole seconds print as "<n>.0"
TotalSecondsText(n) == StrOfFloat(n * 10)

\* datetime.timedelta(seconds=float(value))
TimeDeltaOf(value) ==
    LET f == FloatOf(value)
    IN  IF f.err # "" THEN f
        ELSE [err |-> "", value |-> TimeDelta(f.value.v \div 10)]

(***************************************************************************)
(* Keys.                                                                   *)
(***************************************************************************)
\* f"{key}_{type_name}"
WithToken(key, token) == Append(key, token)

\* f"{prefix}.{k}" for a flat key k below the key prefix
Dotted(prefix, k) == <<prefix>> \o k

\* the enumeration order of the keys of a dict (dict order is insertion
\* order; the dicts of the model are all built in this order)
KeyOrder ==
    << <<"x">>, <<"y">>, <<"x", "int">>, <<"int">>, <<"is", "x">>, <<"x", "geo">>, <<"x", "wgs84">>,
       <<"x", "degrees">>, <<"track">>, <<"sensor">>, <<"accuracy">>, <<"id">>, <<"n">>, <<"a">>, <<"b">>, <<"value">>,
       <<"timestamp">>, <<"start", "timestamp">>, <<"cell">>, <<"lat">>, <<"lon">>, <<"radio">>,
       <<"identifier">> >>

OrderedKeys(d) == SelectSeq(KeyOrder, LAMBDA k : k \in DOMAIN d)

(***************************************************************************)
(* CellIdentity: the value the cell serializer stores and parses.          *)
(***************************************************************************)
\* the radio CellIdentity.create guesses for an identifier given no radio
CellGuess == ("204-1-2000" :> PyStr("LTE")) @@ ("204-1" :> None)

\* the radio technologies CellIdentity.create supports
SupportedRadio == {"GSM", "UMTS", "LTE"}

\* CellIdentity.parse(global_identity, radio)
CellIdentity_parse(global_identity, radio) ==
    IF global_identity.t # "str" THEN [err |-> "AttributeError", value |-> None]
    ELSE IF global_identity.v \notin DOMAIN CellGuess
    THEN [err |-> "ValueError", value |-> None]
    ELSE IF radio = None
    THEN [err |-> "", value |-> Cell(CellGuess[global_identity.v], global_identity.v)]
    ELSE IF radio.t = "str" /\ radio.v \in SupportedRadio
    THEN [err |-> "", value |-> Cell(radio, global_identity.v)]
    ELSE [err |-> "ValueError", value |-> None]

(***************************************************************************)
(* The serializers (Dictionizer / Dedictionizer).  A serializer is named   *)
(* by its type_name; SerializeBoolean, which has none, is "bool".          *)
(***************************************************************************)
\* BasicDictionizerDedictionizer.type_class
type_class(s) ==
    CASE s = "wgs84" -> {"Point"}
      [] s = "degrees" -> {"Angle"}
      [] s = "timestamp" -> {"datetime"}
      [] s = "timedelta" -> {"timedelta"}
      [] s = "cell" -> {"CellIdentity"}
      [] s = "geo" -> {"LocationInfo"}
      [] s = "int" -> {"int"}
      [] s = "float" -> {"float"}

\* key == type_name or key.endswith(f"_{type_name}")
HasTypeIndicator(s, key) ==
    \/ key = <<s>>
    \/ Len(key) >= 2 /\ key[Len(key)] = s

\* key.split("_")[0] in {"is", "has"}
IsFlagKey(key) == Len(key) >= 1 /\ key[1] \in {"is", "has"}

is_dictable(s, key, value) ==
    IF s = "bool" THEN IsFlagKey(key) ELSE value.t \in type_class(s)

is_dedictable(s, key, value) ==
    IF s = "bool" THEN is_dictable(s, key, value) ELSE HasTypeIndicator(s, key)

add_type_indicator(s, key) ==
    IF HasTypeIndicator(s, key) THEN key ELSE WithToken(key, s)

remove_type_indicator(s, key) ==
    IF key = <<s>> THEN key ELSE SubSeq(key, 1, Len(key) - 1)

to_dict(s, key, value) ==
    CASE s = "wgs84" ->
            [key |-> add_type_indicator(s, key),
             value |-> Dict((<<"lat">> :> PyFloat(value.v[1]))
                            @@ (<<"lon">> :> PyFloat(value.v[2])))]
      [] s = "degrees" ->
            [key |-> add_type_indicator(s, key), value |-> PyStr(StrOfFloat(value.v))]
      [] s = "timestamp" ->
            [key |-> add_type_indicator(s, key), value |-> PyStr(IsoFormat(value))]
      [] s = "timedelta" ->
            [key |-> add_type_indicator(s, key),
             value |-> PyStr(TotalSecondsText(value.v))]
      [] s = "cell" ->
            [key |-> add_type_indicator(s, key),
             value |-> Dict((<<"radio">> :> value.v[1])
                            @@ (<<"identifier">> :> PyStr(value.v[2])))]
      [] s \in {"geo", "int", "float"} ->
            [key |-> add_type_indicator(s, key), value |-> value]
      [] s = "bool" -> [key |-> key, value |-> value]

\* WgsPoint(lat=float(value["lat"]), lon=float(value["lon"]))
WgsPointOf(lat, lon) ==
    LET la == FloatOf(lat)
        lo == FloatOf(lon)
    IN  IF la.err # "" THEN la
        ELSE IF lo.err # "" THEN lo
        ELSE IF la.value.v < -900 \/ la.value.v > 900
                \/ lo.value.v < -1800 \/ lo.value.v > 1800
        THEN [err |-> "ValueError", value |-> None]
        ELSE [err |-> "", value |-> WgsPoint(la.value.v, lo.value.v)]

\* SerializeBoolean.from_dict
BoolOf(value) ==
    CASE value.t = "bool" -> [err |-> "", value |-> value]
      [] value.t = "int" -> [err |-> "", value |-> PyBool(value.v # 0)]
      [] value.t = "str" -> [err |-> "", value |-> PyBool(value.v \in {"1", "true"})]
      [] value.t \in {"Properties", "LocationInfo"} ->
            [err |-> "TypeError", value |-> None]
      [] OTHER -> [err |-> "AttributeError", value |-> None]

\* the value part of from_dict
FromDictValue(s, value) ==
    CASE s = "wgs84" ->
            IF IsDict(value)
            THEN IF <<"lat">> \in DOMAIN value.v /\ <<"lon">> \in DOMAIN value.v
                 THEN WgsPointOf(value.v[<<"lat">>], value.v[<<"lon">>])
                 ELSE [err |-> "", value |-> None]
            ELSE IF value.t = "str" THEN [err |-> "", value |-> None]
            ELSE [err |-> "TypeError", value |-> None]
      [] s = "degrees" ->
            LET f == FloatOf(value)
            IN  IF f.err # "" THEN f ELSE [err |-> "", value |-> Angle(f.value.v)]
      [] s = "timestamp" -> FromIsoFormat(value)
      [] s = "timedelta" -> TimeDeltaOf(value)
      [] s = "cell" ->
            IF ~IsDict(value) THEN [err |-> "AttributeError", value |-> None]
            ELSE IF <<"identifier">> \notin DOMAIN value.v
                    \/ value.v[<<"identifier">>] = None
            THEN [err |-> "", value |-> None]
            ELSE CellIdentity_parse(value.v[<<"identifier">>],
                                    IF <<"radio">> \in DOMAIN value.v
                                    THEN value.v[<<"radio">>] ELSE None)
      [] s = "geo" ->
            IF IsDict(value) THEN [err |-> "", value |-> LocationInfo(value.v)]
            ELSE [err |-> "TypeError", value |-> None]
      [] s = "int" -> IntOf(value)
      [] s = "float" -> FloatOf(value)
      [] s = "bool" -> BoolOf(value)

from_dict(s, key, value) ==
    LET r == FromDictValue(s, value)
    IN  [err |-> r.err,
         key |-> IF s = "bool" THEN key ELSE remove_type_indicator(s, key),
         value |-> r.value]

CELL_MEASUREMENT_SERIALIZERS ==
    <<"wgs84", "degrees", "timestamp", "timedelta", "cell", "geo", "int", "float",
      "bool">>

\* the serializers of the list, as a set
Registry == {CELL_MEASUREMENT_SERIALIZERS[i] : i \in 1..Len(CELL_MEASUREMENT_SERIALIZERS)}

\* the first serializer of the list that is among those matching, or "" for
\* none
FirstMatch(serializers, matching) ==
    IF \E i \in 1..Len(serializers) : serializers[i] \in matching
    THEN serializers[CHOOSE i \in 1..Len(serializers) :
                        /\ serializers[i] \in matching
                        /\ \A j \in 1..(i - 1) : serializers[j] \notin matching]
    ELSE ""

_deserialize_property(deserializers, key, value) ==
    LET d == FirstMatch(deserializers,
                        {s \in Registry : is_dedictable(s, key, value)})
    IN  IF d # "" THEN from_dict(d, key, value)
        ELSE [err |-> "", key |-> key, value |-> value]

_serialize_property(serializers, key, value, blacklist_types) ==
    LET s == FirstMatch(serializers,
                        {c \in Registry :
                            is_dictable(c, key, value) /\ c \notin blacklist_types})
    IN  IF s # ""
        THEN LET r == to_dict(s, key, value)
             IN  [err |-> "", key |-> r.key, value |-> r.value]
        ELSE IF value = None \/ value.t = "str" \/ IsDict(value)
        THEN [err |-> "", key |-> key, value |-> value]
        ELSE [err |-> "AssertionError", key |-> key, value |-> value]

(***************************************************************************)
(* Flattening and unflattening.                                            *)
(***************************************************************************)
\* dict.update: the entries of new replace those of result
Update(result, new) == new @@ result

\* a sequence without the elements of a second one that it already holds
RECURSIVE AppendNew(_, _)
AppendNew(order, more) ==
    IF more = <<>> THEN order
    ELSE AppendNew(IF \E i \in 1..Len(order) : order[i] = Head(more)
                   THEN order ELSE Append(order, Head(more)),
                   Tail(more))

\* _collapse_dict: [err, map, order], order being the order of the keys of map
RECURSIVE _collapse_dict(_, _, _)
RECURSIVE CollapseItems(_, _, _, _, _)
CollapseItems(d, keys, result, serializers, blacklist_types) ==
    IF keys = <<>> THEN result
    ELSE
        LET key == Head(keys)
            value == d[key]
            p == IF value # None
                 THEN _serialize_property(serializers, key, value, blacklist_types)
                 ELSE [err |-> "", key |-> key, value |-> value]
        IN  IF p.err # "" THEN [result EXCEPT !.err = p.err]
            ELSE IF IsDict(p.value)
            THEN LET sub == _collapse_dict(p.value.v, serializers, blacklist_types)
                     new == [fk \in {Dotted(p.key, k) : k \in DOMAIN sub.map}
                                |-> sub.map[Tail(fk)]]
                     neworder == [i \in 1..Len(sub.order) |-> Dotted(p.key, sub.order[i])]
                 IN  IF sub.err # "" THEN [result EXCEPT !.err = sub.err]
                     ELSE CollapseItems(d, Tail(keys),
                                        [err |-> "", map |-> Update(result.map, new),
                                         order |-> AppendNew(result.order, neworder)],
                                        serializers, blacklist_types)
            ELSE CollapseItems(d, Tail(keys),
                               [err |-> "",
                                map |-> Update(result.map, <<p.key>> :> p.value),
                                order |-> AppendNew(result.order, << <<p.key>> >>)],
                               serializers, blacklist_types)

_collapse_dict(d, serializers, blacklist_types) ==
    CollapseItems(d, OrderedKeys(d), [err |-> "", map |-> EmptyMap, order |-> <<>>],
                  serializers, blacklist_types)

\* set([key.split(".")[0] for key in keys])
TopLevel(flat) == {k[1] : k \in DOMAIN flat}

\* the fields below item: (key[len(item) + 1:], value) for key.startswith(f"{item}.")
SubFields(flat, item) ==
    [k \in {Tail(f) : f \in {g \in DOMAIN flat : Len(g) > 1 /\ g[1] = item}}
        |-> flat[Dotted(item, k)]]

\* _expand_dict: the set of its possible outcomes [err, value].  top_level is
\* a set of str, whose iteration order is arbitrary: where two of its items
\* are given the same key by their deserializers, either value may stay.
RECURSIVE _expand_dict(_, _)
RECURSIVE ExpandItem(_, _, _)
ExpandItem(flat, item, deserializers) ==
    IF <<item>> \in DOMAIN flat
    THEN {IF flat[<<item>>] # None
          THEN _deserialize_property(deserializers, item, flat[<<item>>])
          ELSE [err |-> "", key |-> item, value |-> None]}
    ELSE {IF sub.err # ""
          THEN [err |-> sub.err, key |-> item, value |-> None]
          ELSE _deserialize_property(deserializers, item, Properties(sub.value)) :
            sub \in _expand_dict(SubFields(flat, item), deserializers)}

RECURSIVE ExpandItems(_, _, _, _)
ExpandItems(flat, items, extras, deserializers) ==
    IF items = {} THEN extras
    ELSE
        LET item == CHOOSE i \in items : TRUE
            entries == ExpandItem(flat, item, deserializers)
            next == UNION {
                        IF extra.err # "" THEN {extra}
                        ELSE IF e.err # "" THEN {[err |-> e.err, value |-> EmptyMap]}
                        ELSE IF e.key \in DOMAIN extra.value
                        THEN {extra,
                              [err |-> "", value |-> Update(extra.value, e.key :> e.value)]}
                        ELSE {[err |-> "", value |-> Update(extra.value, e.key :> e.value)]} :
                        extra \in extras, e \in entries}
        IN  ExpandItems(flat, items \ {item}, next, deserializers)

_expand_dict(flat, deserializers) ==
    ExpandItems(flat, TopLevel(flat), {[err |-> "", value |-> EmptyMap]}, deserializers)

(***************************************************************************)
(* The SQL side: column types, literals, and what sqlite stores.           *)
(* A stored value is None (NULL), an int, a float or a str.                *)
(***************************************************************************)
\* the text of a key and of a column name
RECURSIVE KeyText(_)
KeyText(key) ==
    IF Len(key) = 0 THEN ""
    ELSE IF Len(key) = 1 THEN key[1]
    ELSE key[1] \o "_" \o KeyText(Tail(key))

RECURSIVE ColumnText(_)
ColumnText(name) ==
    IF Len(name) = 0 THEN ""
    ELSE IF Len(name) = 1 THEN KeyText(name[1])
    ELSE KeyText(name[1]) \o "." \o ColumnText(Tail(name))

SQL_TYPES ==
    << <<"bool", "INT">>, <<"int", "INT">>, <<"float", "FLOAT">>,
       <<"degrees", "FLOAT">>, <<"timestamp", "DATETIME">>, <<"timedelta", "FLOAT">> >>

\* get_sql_type: the type of the first serializer that would deserialize
\* key.split(".")[-1]
get_sql_type(key, value) ==
    LET last == key[Len(key)]
        hits == {i \in 1..Len(SQL_TYPES) : is_dedictable(SQL_TYPES[i][1], last, value)}
    IN  IF hits = {} THEN "VARCHAR"
        ELSE SQL_TYPES[CHOOSE i \in hits : \A j \in hits : i <= j][2]

_get_fields_for_item(item) ==
    [key \in DOMAIN item |-> get_sql_type(key, item[key])]

\* sql_literal: the value the literal denotes
sql_literal(value) ==
    CASE value = None -> None
      [] value.t = "bool" -> PyInt(IF value.v THEN 1 ELSE 0)
      [] value.t = "int" -> value
      [] value.t = "datetime" -> PyStr(IsoFormat(value))
      [] value.t = "timedelta" -> PyFloat(value.v * 10)
      [] value.t = "float" -> PyStr(StrOfFloat(value.v))
      [] value.t = "list" -> PyStr(value.v)
      [] OTHER -> value

\* the number a text denotes, for the texts that look like numbers
IsNumeric(text) ==
    \/ \E n \in DOMAIN IntText : IntText[n] = text
    \/ \E n \in DOMAIN FloatText : FloatText[n] = text

NumberOf(text) ==
    IF \E n \in DOMAIN IntText : IntText[n] = text
    THEN PyInt(CHOOSE n \in DOMAIN IntText : IntText[n] = text)
    ELSE PyFloat(CHOOSE n \in DOMAIN FloatText : FloatText[n] = text)

\* a float that is a whole number, as the int it equals
Integral(value) ==
    IF value.t = "float" /\ value.v % 10 = 0 THEN PyInt(value.v \div 10) ELSE value

\* sqlite's column affinity, applied to a value stored in a column of the
\* declared type: INT is INTEGER, FLOAT is REAL, DATETIME is NUMERIC and
\* VARCHAR is TEXT affinity
Affinity(type, value) ==
    CASE value = None -> None
      [] type \in {"INT", "DATETIME"} ->
            IF value.t = "str"
            THEN IF IsNumeric(value.v) THEN Integral(NumberOf(value.v)) ELSE value
            ELSE Integral(value)
      [] type = "FLOAT" ->
            IF value.t = "str"
            THEN IF IsNumeric(value.v) THEN FloatOf(value).value ELSE value
            ELSE FloatOf(value).value
      [] type = "VARCHAR" ->
            IF value.t = "int" /\ value.v \in DOMAIN IntText THEN PyStr(IntText[value.v])
            ELSE IF value.t = "float" /\ value.v \in DOMAIN FloatText
            THEN PyStr(FloatText[value.v])
            ELSE value
      [] OTHER -> value

\* the value of the expression "name" in a row: the column's value, or, for
\* a name that is no column, the string literal sqlite reads it as
Column(row, name) ==
    IF name \in DOMAIN row THEN row[name] ELSE PyStr(ColumnText(name))

(***************************************************************************)
(* SqliteCollection.  A store is the state of one root collection:         *)
(* [fields, columns, rows], fields being [none, map] (self._fields), and   *)
(* columns and rows the table in its sqlite connection.                    *)
(***************************************************************************)
\* a function without one of the elements of its domain
Without(f, x) == [k \in DOMAIN f \ {x} |-> f[k]]

\* f"{parent_field}.value"
ValueField(parent_field) == Append(parent_field, <<"value">>)

\* ".".join(field_name.split(".")[:-1])
ParentField(field_name) == SubSeq(field_name, 1, Len(field_name) - 1)

\* CellMeasurement.as_dict: the extra fields, then timestamp and cell
CellMeasurement(timestamp, cell, extra) ==
    (<<"timestamp">> :> timestamp) @@ (<<"cell">> :> cell) @@ extra

\* SqliteCellMeasurementSet.serialize_item
serialize_item(item) == _collapse_dict(item, CELL_MEASUREMENT_SERIALIZERS, {})

\* SqliteCellMeasurementSet.deserialize_item: CellMeasurement(**_expand_dict(..)),
\* which needs a timestamp that is a datetime and a cell that is None or a
\* CellIdentity
deserialize_item(flat) ==
    {IF e.err # "" THEN e
     ELSE IF <<"timestamp">> \notin DOMAIN e.value \/ <<"cell">> \notin DOMAIN e.value
     THEN [err |-> "TypeError", value |-> EmptyMap]
     ELSE IF \/ e.value[<<"timestamp">>].t # "datetime"
             \/ e.value[<<"cell">>].t \notin {"None", "CellIdentity"}
     THEN [err |-> "AssertionError", value |-> EmptyMap]
     ELSE e :
        e \in _expand_dict(flat, CELL_MEASUREMENT_SERIALIZERS)}

\* ALTER TABLE .. RENAME COLUMN "{parent_field}" TO "{parent_field}.value", then
\* the same on self._fields; sqlite refuses a name the table already has
RenameColumn(st, parent_field) ==
    LET new == ValueField(parent_field)
    IN  IF parent_field \notin DOMAIN st.columns \/ new \in DOMAIN st.columns
        THEN [st EXCEPT !.err = "OperationalError"]
        ELSE [st EXCEPT
                !.columns = (new :> st.columns[parent_field])
                                @@ Without(st.columns, parent_field),
                !.rows = [i \in 1..Len(st.rows) |->
                            (new :> st.rows[i][parent_field])
                                @@ Without(st.rows[i], parent_field)],
                !.fields = (new :> st.fields[parent_field])
                                @@ Without(st.fields, parent_field),
                !.renamed = @ \cup {parent_field}]

\* a faulty ADD COLUMN, which fills the new column of the rows there are
AddColumnFilled(st, field_name, type) ==
    [st EXCEPT
        !.fields = (field_name :> type) @@ st.fields,
        !.columns = (field_name :> type) @@ st.columns,
        !.rows = [i \in 1..Len(st.rows) |-> (field_name :> PyStr("")) @@ st.rows[i]]]

\* self._fields[field_name] = type, then ALTER TABLE .. ADD COLUMN: the new
\* column is NULL in the rows there are; sqlite refuses a name the table has
AddColumn(st, field_name, type) ==
    LET set == [st EXCEPT !.fields = (field_name :> type) @@ st.fields]
    IN  IF field_name \in DOMAIN st.columns
        THEN [set EXCEPT !.err = "OperationalError"]
        ELSE [set EXCEPT
                !.columns = (field_name :> type) @@ st.columns,
                !.rows = [i \in 1..Len(st.rows) |->
                            (field_name :> None) @@ st.rows[i]]]

\* the body of the loop of add over the fields of the item
AddField(st, field_name, type) ==
    IF st.err # "" \/ field_name \in DOMAIN st.fields THEN st
    ELSE IF ParentField(field_name) \in DOMAIN st.fields
    THEN LET renamed == RenameColumn(st, ParentField(field_name))
         IN  IF renamed.err # "" THEN renamed
             ELSE AddColumn(renamed, field_name, type)
    ELSE AddColumn(st, field_name, type)

RECURSIVE AddFields(_, _, _)
AddFields(st, order, types) ==
    IF order = <<>> THEN st
    ELSE AddFields(AddField(st, Head(order), types[Head(order)]), Tail(order), types)

\* INSERT INTO table(fields of self._fields) VALUES(literals of the item)
Insert(st, flat) ==
    IF st.err # "" THEN st
    ELSE IF \E f \in DOMAIN st.fields : f \notin DOMAIN st.columns
    THEN [st EXCEPT !.err = "OperationalError"]
    ELSE [st EXCEPT !.rows = Append(st.rows,
            [c \in DOMAIN st.columns |->
                IF c \in DOMAIN st.fields /\ c \in DOMAIN flat
                THEN Affinity(st.columns[c], sql_literal(flat[c]))
                ELSE None])]

\* _create_table: self._fields = fields, then CREATE TABLE
_create_table(st, types) ==
    [st EXCEPT !.fields = types, !.columns = types, !.rows = <<>>]

\* the store as add works on it: no error yet, no column renamed yet
Started(store) ==
    [err |-> "", fields |-> store.fields.map, columns |-> store.columns,
     rows |-> store.rows, renamed |-> {}]

\* a faulty add, which makes the table anew for the fields of every item
AddSerializedRecreating(store, st, ser, types) ==
    IF ser.err # "" THEN [st EXCEPT !.err = ser.err]
    ELSE Insert(_create_table(st, types), ser.map)

\* the body of add, given the serialized item ser and the fields it has
AddSerialized(store, st, ser, types) ==
    IF ser.err # "" THEN [st EXCEPT !.err = ser.err]
    ELSE IF store.fields.none
    THEN Insert(_create_table(st, types), ser.map)
    ELSE Insert(AddFields(st, ser.order, types), ser.map)

\* a faulty exit of add, which forgets the fields when the add raised
AddedForgetting(store, failed, done) ==
    [err |-> done.err,
     renamed |-> done.renamed,
     store |-> [fields |-> [none |-> done.err # "", map |-> done.fields],
                columns |-> done.columns,
                rows |-> done.rows]]

\* what add leaves: the error raised ("" for none), the store, and the
\* columns it renamed
Added(store, failed, done) ==
    [err |-> done.err,
     renamed |-> done.renamed,
     store |-> [fields |-> [none |-> store.fields.none /\ failed,
                            map |-> done.fields],
                columns |-> done.columns,
                rows |-> done.rows]]

AddItem(store, ser) ==
    Added(store, ser.err # "",
          AddSerialized(store, Started(store), ser, _get_fields_for_item(ser.map)))

\* SqliteCollection.add on a store
add(store, item) == AddItem(store, serialize_item(item))

(***************************************************************************)
(* Queries.  Collection 0 is the root; collection i > 0 is views[i], made  *)
(* by _create_view: a temporary view of its parent in the same connection, *)
(* or, made from a collection without fields, a new empty collection of    *)
(* its own (detached).                                                     *)
(***************************************************************************)
NoConstraints == [k \in {} |-> None]

\* the texts of the model in sqlite's (binary) collation order
TextOrder ==
    <<"1.5", "10", "12", "2023-01-01T00:00:00", "2023-01-01T00:01:00",
      "2023-01-01T00:02:00", "2023-01-01T00:30:00+00:00",
      "2023-01-01T01:00:00+00:00", "2023-01-01T01:00:00+01:00",
      "2023-01-01T01:30:00+00:00", "2023-01-01T03:00:00+01:00", "204-1", "204-1-2000", "5", "5.0", "52.0", "90.0",
      "A", "A1", "B", "LTE", "bar", "cell", "foo", "maybe", "n", "s", "t", "timestamp",
      "track", "v", "x", "y">>

TextRank(text) == CHOOSE i \in 1..Len(TextOrder) : TextOrder[i] = text

\* sqlite's comparison of two stored values: NULL compares with nothing, a
\* number is less than a text, numbers compare by value, texts by collation
Number(value) == IF value.t = "int" THEN value.v * 10 ELSE value.v

SqlLess(a, b) ==
    /\ a # None /\ b # None
    /\ IF a.t = "str"
       THEN b.t = "str" /\ TextRank(a.v) < TextRank(b.v)
       ELSE b.t = "str" \/ Number(a) < Number(b)

SqlEqual(a, b) ==
    /\ a # None /\ b # None
    /\ IF a.t = "str" THEN b.t = "str" /\ a.v = b.v
       ELSE b.t # "str" /\ Number(a) = Number(b)

\* the affinity a comparison applies to a literal compared with a column of
\* the declared type ("" is an expression without affinity)
Compared(type, literal) ==
    IF type \in {"INT", "FLOAT", "DATETIME"}
    THEN IF literal.t = "str" /\ IsNumeric(literal.v) THEN NumberOf(literal.v) ELSE literal
    ELSE Affinity(type, literal)

\* the declared type of the expression "name" in collection c
RECURSIVE TypeOf(_, _, _)
TypeOf(db, c, name) ==
    IF c = 0
    THEN IF name \in DOMAIN db.columns THEN db.columns[name] ELSE ""
    ELSE IF name \in DOMAIN db.views[c].select
    THEN TypeOf(db, db.views[c].parent, db.views[c].select[name])
    ELSE ""

\* the WHERE clause _build_query makes of the constraints, on a row of c
Where(db, c, row, equals, in_collection, range) ==
    /\ \A key \in DOMAIN equals :
        IF equals[key] = None THEN Column(row, key) = None
        ELSE SqlEqual(Column(row, key),
                      Compared(TypeOf(db, c, key), sql_literal(equals[key])))
    /\ \A key \in DOMAIN in_collection :
        \E value \in in_collection[key] :
            SqlEqual(Column(row, key), Compared(TypeOf(db, c, key), sql_literal(value)))
    /\ \A key \in DOMAIN range :
        /\ range[key][1] # None =>
            ~SqlLess(Column(row, key),
                     Compared(TypeOf(db, c, key), sql_literal(range[key][1])))
            /\ Column(row, key) # None
        /\ range[key][2] # None =>
            SqlLess(Column(row, key),
                    Compared(TypeOf(db, c, key), sql_literal(range[key][2])))

\* ORDER BY: NULL first, then the numbers, then the texts; rows that compare
\* equal keep their order
OrderLess(a, b) == (a = None /\ b # None) \/ SqlLess(a, b)

RECURSIVE RowLess(_, _, _)
RowLess(r1, r2, sort_keys) ==
    /\ sort_keys # <<>>
    /\ \/ OrderLess(Column(r1, Head(sort_keys)), Column(r2, Head(sort_keys)))
       \/ /\ ~OrderLess(Column(r2, Head(sort_keys)), Column(r1, Head(sort_keys)))
          /\ RowLess(r1, r2, Tail(sort_keys))

RECURSIVE InsertSorted(_, _, _)
InsertSorted(sorted, row, sort_keys) ==
    IF sorted = <<>> THEN <<row>>
    ELSE IF RowLess(row, Head(sorted), sort_keys) THEN <<row>> \o sorted
    ELSE <<Head(sorted)>> \o InsertSorted(Tail(sorted), row, sort_keys)

RECURSIVE OrderBy(_, _)
OrderBy(rows, sort_keys) ==
    IF rows = <<>> \/ sort_keys = <<>> THEN rows
    ELSE InsertSorted(OrderBy(SubSeq(rows, 1, Len(rows) - 1), sort_keys),
                      rows[Len(rows)], sort_keys)

\* LIMIT: absent for None
Limit(rows, limit) ==
    IF limit = None THEN rows
    ELSE IF limit.v >= Len(rows) THEN rows
    ELSE SubSeq(rows, 1, limit.v)

\* the query of _build_query on the rows of a collection
_build_query(db, c, rows, equals, in_collection, range, sort_keys, limit) ==
    Limit(OrderBy(SelectSeq(rows, LAMBDA row : Where(db, c, row, equals, in_collection, range)),
                  sort_keys),
          limit)

\* the rows of a collection: of the table, or of the view over its parent
RECURSIVE RowsOf(_, _)
RowsOf(db, c) ==
    IF c = 0 THEN db.rows
    ELSE IF db.views[c].detached THEN <<>>
    ELSE LET v == db.views[c]
             q == _build_query(db, v.parent, RowsOf(db, v.parent), v.equals, v.in_collection,
                               v.range, v.sort_keys, v.limit)
         IN  [i \in 1..Len(q) |->
                [name \in DOMAIN v.select |-> Column(q[i], v.select[name])]]

\* self._fields of a collection
FieldsOf(db, c) == IF c = 0 THEN db.fields ELSE db.views[c].fields

\* SqliteCollection.__iter__: the possible outcomes [err, value] of a whole
\* iteration, value being the sequence of the items
RECURSIVE IterRows(_, _, _)
IterRows(rows, names, outcomes) ==
    IF rows = <<>> THEN outcomes
    ELSE IterRows(Tail(rows), names,
            {IF o.err # "" THEN o
             ELSE IF item.err # "" THEN [err |-> item.err, value |-> o.value]
             ELSE [err |-> "", value |-> Append(o.value, item.value)] :
                o \in outcomes,
                item \in deserialize_item([name \in names |-> Column(Head(rows), name)])})

iter(db, c) ==
    IF FieldsOf(db, c).none THEN {[err |-> "", value |-> <<>>]}
    ELSE IterRows(RowsOf(db, c), DOMAIN FieldsOf(db, c).map, {[err |-> "", value |-> <<>>]})

\* SqliteCollection.__len__: SELECT COUNT(*)
len(db, c) == IF FieldsOf(db, c).none THEN 0 ELSE Len(RowsOf(db, c))

\* the columns of the relation a collection reads: of the table, or of the
\* view
ColumnsOf(db, c) == IF c = 0 THEN DOMAIN db.columns ELSE DOMAIN db.views[c].select

\* create_collection(): a new collection without fields, in a connection of
\* its own
Detached ==
    [detached |-> TRUE, parent |-> 0, select |-> [k \in {} |-> <<>>],
     fields |-> [none |-> TRUE, map |-> [k \in {} |-> ""]],
     equals |-> NoConstraints, in_collection |-> NoConstraints,
     range |-> NoConstraints, sort_keys |-> <<>>, limit |-> None, alive |-> TRUE]

\* the detached collection a query on c returns; it has no parent and no
\* query of its own, and the call that made it is kept with it as history
DetachedOf(c, equals, in_collection, range, sort_keys, limit) ==
    [Detached EXCEPT !.parent = c, !.equals = equals,
                     !.in_collection = in_collection, !.range = range,
                     !.sort_keys = sort_keys, !.limit = limit]

\* CREATE TEMPORARY VIEW over the fields of c, and the collection made of it:
\* its fields are what PRAGMA table_info tells of the view
View(db, c, equals, in_collection, range, sort_keys, limit) ==
    [detached |-> FALSE, parent |-> c,
     select |-> [name \in DOMAIN FieldsOf(db, c).map |-> name],
     fields |-> [none |-> FALSE,
                 map |-> [name \in DOMAIN FieldsOf(db, c).map |-> TypeOf(db, c, name)]],
     equals |-> equals, in_collection |-> in_collection, range |-> range,
     sort_keys |-> sort_keys, limit |-> limit, alive |-> TRUE]

\* _create_index for each of the names: CREATE INDEX IF NOT EXISTS on the
\* root table, nothing for a collection without fields
_create_index(db, c, names) ==
    IF FieldsOf(db, c).none THEN db.indexes ELSE db.indexes \cup names

\* _create_view: [err, views]; a sort key that is no field is written without
\* quotes, and sqlite refuses it unless it names a column
_create_view(db, c, equals, in_collection, range, sort_keys, limit) ==
    IF FieldsOf(db, c).none
    THEN [err |-> "", views |-> Append(db.views,
                DetachedOf(c, equals, in_collection, range, sort_keys, limit))]
    ELSE IF \E i \in 1..Len(sort_keys) :
                sort_keys[i] \notin DOMAIN FieldsOf(db, c).map /\ sort_keys[i] \notin ColumnsOf(db, c)
    THEN [err |-> "OperationalError", views |-> db.views]
    ELSE [err |-> "", views |-> Append(db.views,
                View(db, c, equals, in_collection, range, sort_keys, limit))]

(***************************************************************************)
(* The items and constraints the operations are called with.               *)
(***************************************************************************)
LTE == Cell(PyStr("LTE"), "204-1-2000")

\* the extra fields of the items added under Spec
Extras ==
    { EmptyMap,
      <<"x">> :> PyStr("foo"),
      <<"x">> :> PyInt(5),
      <<"x">> :> Dict(<<"a">> :> PyStr("s")),
      <<"x">> :> Dict(<<"a">> :> Dict(<<"b">> :> PyStr("t"))),
      <<"x">> :> Dict(<<"value">> :> PyStr("v")),
      <<"x", "int">> :> PyInt(5),
      <<"is", "x">> :> PyBool(TRUE),
      <<"is", "x">> :> PyStr("maybe"),
      <<"y">> :> PyBool(TRUE),
      <<"x">> :> PyList("[1, 2]"),
      <<"is", "x">> :> PyList("[1, 2]") }

Items ==
    {CellMeasurement(DateTime(0), None, extra) : extra \in Extras}
        \cup {CellMeasurement(DateTime(60), LTE, EmptyMap)}

(***************************************************************************)
(* The operations.                                                         *)
(***************************************************************************)
NoFields == [none |-> TRUE, map |-> [k \in {} |-> ""]]

\* the collection, its sqlite connection and the views made in it
Db ==
    [fields |-> fields, columns |-> table_columns, rows |-> table_rows,
     views |-> views, indexes |-> indexes]

Returned(op, of, err, value) == [op |-> op, of |-> of, err |-> err, value |-> value]

\* what ALTER TABLE .. RENAME COLUMN does to the views of the table: their
\* references to the column follow its new name
Renamed(name, renamed) == IF name \in renamed THEN ValueField(name) ELSE name

RenameInViews(vs, renamed) ==
    [i \in 1..Len(vs) |->
        IF vs[i].detached \/ vs[i].parent # 0 THEN vs[i]
        ELSE [vs[i] EXCEPT
                !.select = [name \in DOMAIN @ |-> Renamed(@[name], renamed)],
                !.equals = [key \in {Renamed(k, renamed) : k \in DOMAIN @} |->
                              @[CHOOSE k \in DOMAIN @ : Renamed(k, renamed) = key]],
                !.in_collection = [key \in {Renamed(k, renamed) : k \in DOMAIN @} |->
                              @[CHOOSE k \in DOMAIN @ : Renamed(k, renamed) = key]],
                !.range = [key \in {Renamed(k, renamed) : k \in DOMAIN @} |->
                              @[CHOOSE k \in DOMAIN @ : Renamed(k, renamed) = key]],
                !.sort_keys = [j \in 1..Len(@) |-> Renamed(@[j], renamed)]]]

Init ==
    /\ fields = NoFields
    /\ table_columns = [k \in {} |-> ""]
    /\ table_rows = <<>>
    /\ indexes = {}
    /\ views = <<>>
    /\ added = <<>>
    /\ ret = Returned("__init__", 0, "", <<>>)
    /\ arg = <<>>

\* SqliteCollection.add on the root collection
Add(item) ==
    /\ \E r \in {add([fields |-> fields, columns |-> table_columns,
                       rows |-> table_rows], item)} :
           /\ fields' = r.store.fields
           /\ table_columns' = r.store.columns
           /\ table_rows' = r.store.rows
           /\ views' = RenameInViews(views, r.renamed)
           /\ added' = IF r.err = "" THEN Append(added, item) ELSE added
           /\ ret' = Returned("add", 0, r.err, <<>>)
    /\ arg' = item
    /\ UNCHANGED indexes

\* list(collection): SqliteCollection.__iter__ run to its end
Iterate(c) ==
    /\ \E o \in iter(Db, c) : ret' = Returned("iter", c, o.err, o.value)
    /\ UNCHANGED <<fields, table_columns, table_rows, indexes, views, added, arg>>

\* what a query leaves: the view made, or the error raised
Query(op, c, made) ==
    /\ views' = made.views
    /\ ret' = Returned(op, c, made.err, IF made.err = "" THEN Len(made.views) ELSE 0)
    /\ UNCHANGED <<fields, table_columns, table_rows, added>>

select_by_value(c, constraints) ==
    /\ indexes' = _create_index(Db, c, DOMAIN constraints)
    /\ arg' = constraints
    /\ Query("select_by_value", c,
             _create_view(Db, c, constraints, NoConstraints, NoConstraints, <<>>, None))

select_by_range(c, constraints) ==
    /\ indexes' = _create_index(Db, c, DOMAIN constraints)
    /\ arg' = constraints
    /\ Query("select_by_range", c,
             _create_view(Db, c, NoConstraints, NoConstraints, constraints, <<>>, None))

select_by_values(c, constraints) ==
    /\ indexes' = _create_index(Db, c, DOMAIN constraints)
    /\ arg' = constraints
    /\ Query("select_by_values", c,
             _create_view(Db, c, NoConstraints, constraints, NoConstraints, <<>>, None))

\* a faulty limit, which applies the LIMIT to the table as well
LimitTruncating(c, count) ==
    /\ arg' = count
    /\ views' = _create_view(Db, c, NoConstraints, NoConstraints, NoConstraints, <<>>,
                             PyInt(count)).views
    /\ ret' = Returned("limit", c, "", Len(views'))
    /\ table_rows' = Limit(table_rows, PyInt(count))
    /\ UNCHANGED <<fields, table_columns, added, indexes>>

limit(c, count) ==
    /\ arg' = count
    /\ Query("limit", c,
             _create_view(Db, c, NoConstraints, NoConstraints, NoConstraints, <<>>,
                          PyInt(count)))
    /\ UNCHANGED indexes

\* sort_by: "field_name in self._fields" raises TypeError when there are no
\* fields; an index is made for the keys that are fields
sort_by(c, keys) ==
    /\ arg' = keys
    /\ IF FieldsOf(Db, c).none /\ keys # <<>>
       THEN /\ ret' = Returned("sort_by", c, "TypeError", 0)
            /\ UNCHANGED <<fields, table_columns, table_rows, added, views, indexes>>
       ELSE /\ indexes' = _create_index(Db, c,
                {keys[i] : i \in {j \in 1..Len(keys) : keys[j] \in DOMAIN FieldsOf(Db, c).map}})
            /\ Query("sort_by", c,
                     _create_view(Db, c, NoConstraints, NoConstraints, NoConstraints, keys,
                                  None))

\* get_unique_values: for each name in turn, the assertion that it is a
\* field and then its index; then SELECT DISTINCT, as a set of values for one
\* name and of tuples for more
get_unique_values(c, field_names) ==
    /\ arg' = field_names
    /\ IF FieldsOf(Db, c).none
       THEN /\ ret' = Returned("get_unique_values", c, "", {})
            /\ UNCHANGED indexes
       ELSE LET known == {i \in 1..Len(field_names) :
                            \A j \in 1..i : field_names[j] \in DOMAIN FieldsOf(Db, c).map}
            IN  /\ indexes' = _create_index(Db, c, {field_names[i] : i \in known})
                /\ ret' = IF known # 1..Len(field_names)
                          THEN Returned("get_unique_values", c, "AssertionError", {})
                          ELSE Returned("get_unique_values", c, "",
                                {IF Len(field_names) = 1 THEN Column(row, field_names[1])
                                 ELSE [i \in 1..Len(field_names) |-> Column(row, field_names[i])] :
                                    row \in {RowsOf(Db, c)[i] : i \in 1..Len(RowsOf(Db, c))}})
    /\ UNCHANGED <<fields, table_columns, table_rows, views, added>>

\* SqliteCellMeasurementSet.get_cells: CellIdentity.parse of every pair that
\* get_unique_values("cell.radio", "cell.identifier") returns
get_cells(c) ==
    LET names == << <<<<"cell">>, <<"radio">>>>, <<<<"cell">>, <<"identifier">>>> >>
        known == {i \in 1..2 : \A j \in 1..i : names[j] \in DOMAIN FieldsOf(Db, c).map}
    IN  /\ arg' = <<>>
        /\ IF FieldsOf(Db, c).none
           THEN /\ ret' = Returned("get_cells", c, "", {})
                /\ UNCHANGED indexes
           ELSE /\ indexes' = _create_index(Db, c, {names[i] : i \in known})
                /\ IF known # 1..2
                   THEN ret' = Returned("get_cells", c, "AssertionError", {})
                   ELSE \E cells \in {{CellIdentity_parse(Column(row, names[2]),
                                                          Column(row, names[1])) :
                                        row \in {RowsOf(Db, c)[i] : i \in 1..Len(RowsOf(Db, c))}}} :
                            IF \E p \in cells : p.err # ""
                            THEN \E p \in cells :
                                    p.err # "" /\ ret' = Returned("get_cells", c, p.err, {})
                            ELSE ret' = Returned("get_cells", c, "", {p.value : p \in cells})
        /\ UNCHANGED <<fields, table_columns, table_rows, views, added>>

\* "for item in items: self.add(item)" on a collection r = [err, store], up
\* to the add that raises
RECURSIVE AddAll(_, _)
AddAll(r, items) ==
    IF items = <<>> \/ r.err # "" THEN r
    ELSE AddAll(add(r.store, Head(items)), Tail(items))

\* SqliteCollection.__add__ of the root collection and a collection made of
\* the items other: create_collection(), then every item that iterating self
\* yields is added to it, then every item that iterating other yields.  What
\* is left is the error raised, or the items of the three collections and
\* the len of the new one.
__add__(other) ==
    LET New == [err |-> "", store |-> [fields |-> NoFields, columns |-> [k \in {} |-> ""],
                                       rows |-> <<>>]]
        Of(store) == [fields |-> store.fields, columns |-> store.columns,
                      rows |-> store.rows, views |-> <<>>, indexes |-> {}]
    IN  /\ arg' = other
        /\ \E b \in {AddAll(New, other)} :
            /\ b.err = ""
            /\ \E ia \in iter(Db, 0), ib \in iter(Of(b.store), 0) :
                IF ia.err # "" \/ ib.err # ""
                THEN ret' = Returned("__add__", 0, IF ia.err # "" THEN ia.err ELSE ib.err, <<>>)
                ELSE \E sum \in {AddAll(New, ia.value \o ib.value)} :
                        IF sum.err # "" THEN ret' = Returned("__add__", 0, sum.err, <<>>)
                        ELSE \E is \in iter(Of(sum.store), 0) :
                                ret' = Returned("__add__", 0, is.err,
                                                [items |-> is.value, a |-> ia.value,
                                                 b |-> ib.value,
                                                 len |-> len(Of(sum.store), 0)])
        /\ UNCHANGED <<fields, table_columns, table_rows, indexes, views, added>>

\* a faulty Item.with_value, which applies each function to the item in which
\* the other given keys are already set
WithValueSequential(item, values) ==
    LET Value(of, k) == IF values[k].f = "const" THEN values[k].v
                        ELSE IF values[k].key \in DOMAIN of THEN of[values[k].key] ELSE None
        partly(k) == [j \in DOMAIN item \cup (DOMAIN values \ {k}) |->
                        IF j \in DOMAIN values THEN Value(item, j) ELSE item[j]]
    IN  [err |-> IF \E k \in DOMAIN values :
                        values[k].f = "attr" /\ values[k].key \notin DOMAIN item
                 THEN "AttributeError" ELSE "",
         value |-> [k \in DOMAIN item \cup DOMAIN values |->
                        IF k \in DOMAIN values THEN Value(partly(k), k) ELSE item[k]]]

\* Item.with_value: as_dict() of the item with every given key set, to the
\* value given ([f |-> "const", v]) or to what the function given returns for
\* the item itself; the functions of the model read one attribute of the item
\* ([f |-> "attr", key]), which raises AttributeError when the item has none
Item_with_value(item, values) ==
    LET Value(k) == IF values[k].f = "const" THEN values[k].v
                    ELSE IF values[k].key \in DOMAIN item THEN item[values[k].key] ELSE None
    IN  [err |-> IF \E k \in DOMAIN values :
                        values[k].f = "attr" /\ values[k].key \notin DOMAIN item
                 THEN "AttributeError" ELSE "",
         value |-> [k \in DOMAIN item \cup DOMAIN values |->
                        IF k \in DOMAIN values THEN Value(k) ELSE item[k]]]

\* SqliteCollection.with_value: create_collection() of item.with_value(..) for
\* every item that iterating the collection yields.  What is left is the
\* error raised, or the items of the new collection and of the receiver.
with_value(c, values) ==
    LET New == [err |-> "", store |-> [fields |-> NoFields, columns |-> [k \in {} |-> ""],
                                       rows |-> <<>>]]
        Of(store) == [fields |-> store.fields, columns |-> store.columns,
                      rows |-> store.rows, views |-> <<>>, indexes |-> {}]
    IN  /\ arg' = values
        /\ \E ia \in iter(Db, c) :
            IF ia.err # "" THEN ret' = Returned("with_value", c, ia.err, <<>>)
            ELSE \E changed \in {[i \in 1..Len(ia.value) |->
                                    Item_with_value(ia.value[i], values)]} :
                    IF \E i \in 1..Len(changed) : changed[i].err # ""
                    THEN ret' = Returned("with_value", c, "AttributeError", <<>>)
                    ELSE \E w \in {AddAll(New, [i \in 1..Len(changed) |-> changed[i].value])} :
                            IF w.err # "" THEN ret' = Returned("with_value", c, w.err, <<>>)
                            ELSE \E iw \in iter(Of(w.store), 0) :
                                    ret' = Returned("with_value", c, iw.err,
                                                    [items |-> iw.value, a |-> ia.value])
        /\ UNCHANGED <<fields, table_columns, table_rows, indexes, views, added>>

\* len(collection)
Count(c) ==
    /\ ret' = Returned("len", c, "", len(Db, c))
    /\ UNCHANGED <<fields, table_columns, table_rows, indexes, views, added, arg>>

Next ==
    \/ \E item \in Items : Len(table_rows) < MaxRows /\ Add(item)
    \/ Iterate(0)

Spec == Init /\ [][Next]_vars

(***************************************************************************)
(* Queries on the collection and on its views.                             *)
(***************************************************************************)
Track == <<<<"track">>>>
Timestamp == <<<<"timestamp">>>>
\* "n" is the name of the field n of the items, "n_int" that of its column
N == <<<<"n">>>>
NInt == <<<<"n", "int">>>>

TrackItem(seconds, track, n) ==
    CellMeasurement(DateTime(seconds), None,
                    (<<"track">> :> PyStr(track)) @@ (<<"n">> :> PyInt(n)))

ViewItems == {TrackItem(0, "A", 1), TrackItem(60, "B", 2)}

Collections == 0..Len(views)

\* a query may be made as long as there is room for its view
Room == Len(views) < MaxViews

NextView ==
    \/ \E item \in ViewItems : Len(table_rows) < MaxViewRows /\ Add(item)
    \/ \E c \in Collections : Room /\ select_by_value(c, Track :> PyStr("A"))
    \/ \E c \in Collections :
        Room /\ select_by_range(c, Timestamp :> <<DateTime(0), DateTime(60)>>)
    \/ \E c \in Collections : Room /\ select_by_values(c, Track :> {PyStr("B")})
    \/ \E c \in Collections : Room /\ limit(c, 1)
    \/ \E c \in Collections, keys \in {<<Timestamp>>, <<N>>} : Room /\ sort_by(c, keys)
    \/ \E c \in Collections : Count(c)

SpecView == Init /\ [][NextView]_vars

(***************************************************************************)
(* Disposal.  Python finalizes a collection (__del__) once nothing refers  *)
(* to it; a view is referred to by the views made of it (their _parent),   *)
(* so it is finalized only when none of those is alive.                    *)
(***************************************************************************)
\* the collection is referred to: the root, or a view not yet finalized
Alive(c) == IF c = 0 THEN TRUE ELSE views[c].alive

\* a faulty __del__, which drops every view of the connection
DisposeCascading(c) ==
    /\ IF c = 0 THEN TRUE ELSE views[c].alive
    /\ \A v \in 1..Len(views) : (views[v].alive /\ ~views[v].detached) => views[v].parent # c
    /\ views' = [v \in 1..Len(views) |-> [views[v] EXCEPT !.alive = FALSE]]
    /\ ret' = Returned("__del__", c, "", <<>>)
    /\ UNCHANGED <<fields, table_columns, table_rows, indexes, added, arg>>

\* SqliteCollection.__del__: DROP VIEW of a collection that has a parent,
\* nothing for the root or for a detached collection
Dispose(c) ==
    /\ Alive(c)
    /\ \A v \in 1..Len(views) : (views[v].alive /\ ~views[v].detached) => views[v].parent # c
    /\ views' = IF c = 0 THEN views ELSE [views EXCEPT ![c].alive = FALSE]
    /\ ret' = Returned("__del__", c, "", <<>>)
    /\ UNCHANGED <<fields, table_columns, table_rows, indexes, added, arg>>

NextDispose ==
    \/ \E item \in ViewItems : Len(table_rows) < MaxViewRows /\ Add(item)
    \/ \E c \in Collections : Alive(c) /\ Room /\ select_by_value(c, Track :> PyStr("A"))
    \/ \E c \in Collections : Alive(c) /\ Room /\ limit(c, 1)
    \/ \E c \in Collections : Alive(c) /\ Count(c)
    \/ \E c \in Collections : Dispose(c)

SpecDispose == Init /\ [][NextDispose]_vars

(***************************************************************************)
(* Filters made of filters.                                                *)
(***************************************************************************)
FilterItems == {TrackItem(0, "A", 1), TrackItem(60, "A", 2), TrackItem(60, "B", 1)}

Equals == {Track :> PyStr("A"), NInt :> PyInt(1)}

Ranges ==
    {Timestamp :> <<DateTime(0), DateTime(60)>>,
     NInt :> <<PyInt(2), None>>,
     N :> <<PyInt(2), None>>}

NextFilter ==
    \/ \E item \in FilterItems : Len(table_rows) < MaxViewRows /\ Add(item)
    \/ \E c \in Collections, e \in Equals : Room /\ select_by_value(c, e)
    \/ \E c \in Collections, r \in Ranges : Room /\ select_by_range(c, r)
    \/ \E c \in Collections : Iterate(c)
    \/ \E c \in Collections : Count(c)
    \/ \E c \in Collections, names \in {<<Track>>, <<N>>, <<Track, NInt>>} :
        get_unique_values(c, names)

SpecFilter == Init /\ [][NextFilter]_vars

(***************************************************************************)
(* Filters of a collection whose schema grows.                             *)
(***************************************************************************)
X == <<<<"x">>>>

SchemaItems ==
    {CellMeasurement(DateTime(0), None, extra) :
        extra \in {<<"x">> :> PyStr("foo"), <<"x">> :> Dict(<<"a">> :> PyStr("s")),
                   <<"track">> :> PyStr("A")}}

NextSchema ==
    \/ \E item \in SchemaItems : Len(table_rows) < MaxRows /\ Add(item)
    \/ \E e \in {X :> PyStr("foo"), Track :> PyStr("A")} : Room /\ select_by_value(0, e)
    \/ \E c \in Collections : Count(c)

SpecSchema == Init /\ [][NextSchema]_vars

(***************************************************************************)
(* Sums of the collection and a collection of one item, of the same or of  *)
(* another schema, the collections with_value makes of it, and its cells.  *)
(***************************************************************************)
NextMerge ==
    \/ \E item \in SchemaItems \cup {CellMeasurement(DateTime(60), LTE, EmptyMap)} :
        Len(table_rows) < MaxRows /\ Add(item)
    \/ \E c \in Collections : get_cells(c)
    \/ \E other \in {<<>>} \cup {<<item>> : item \in SchemaItems}
            \cup {<<CellMeasurement(DateTime(0), None,
                                    <<"x">> :> Dict(<<"value">> :> PyStr("v")))>>} :
        __add__(other)
    \/ \E c \in Collections,
          values \in {<<"track">> :> [f |-> "const", v |-> PyStr("Z")],
                      (<<"track">> :> [f |-> "attr", key |-> <<"x">>])
                        @@ (<<"x">> :> [f |-> "attr", key |-> <<"track">>])} :
        with_value(c, values)

SpecMerge == Init /\ [][NextMerge]_vars

(***************************************************************************)
(* A track of one sensor, of which the later measurements have an          *)
(* accuracy: the items are added, the track is selected, and collections   *)
(* are counted and iterated.                                               *)
(***************************************************************************)
SensorItem(seconds, extra) ==
    CellMeasurement(DateTime(seconds), None,
                    (<<"track">> :> PyStr("A")) @@ (<<"sensor">> :> PyStr("A1"))
                        @@ (<<"lon">> :> PyFloat(50)) @@ (<<"lat">> :> PyFloat(520)) @@ extra)

NextSensor ==
    \/ \E item \in {SensorItem(0, EmptyMap), SensorItem(60, <<"accuracy">> :> PyInt(10))} :
        Len(table_rows) < MaxViewRows /\ Add(item)
    \/ \E c \in Collections : Room /\ select_by_value(c, Track :> PyStr("A"))
    \/ \E c \in Collections : Count(c)
    \/ \E c \in Collections : Iterate(c)

SpecSensor == Init /\ [][NextSensor]_vars

(***************************************************************************)
(* Ranges: items whose timestamps are in UTC, and ranges of the timestamp  *)
(* (select_by_timestamp) whose bounds are in UTC or an hour ahead of it,   *)
(* and ranges of the int field n.                                          *)
(***************************************************************************)
NextRange ==
    \/ \E item \in {CellMeasurement(DateTimeTz(1800, 0), None, <<"n">> :> PyInt(1)),
                     CellMeasurement(DateTimeTz(5400, 0), None, <<"n">> :> PyInt(2))} :
        Len(table_rows) < MaxViewRows /\ Add(item)
    \/ \E low, high \in {None, DateTimeTz(3600, 0), DateTimeTz(3600, 3600),
                          DateTimeTz(10800, 3600)} :
        Room /\ select_by_range(0, Timestamp :> <<low, high>>)
    \/ \E low, high \in {None, PyInt(1), PyInt(2)} :
        Room /\ select_by_range(0, NInt :> <<low, high>>)
    \/ \E c \in Collections : Count(c)

SpecRange == Init /\ [][NextRange]_vars

(***************************************************************************)
(* Order: items whose timestamps are in UTC or an hour ahead of it, sorted *)
(* by timestamp, limited to one item, and iterated.                        *)
(***************************************************************************)
NextOrder ==
    \/ \E item \in {CellMeasurement(DateTimeTz(3600, 3600), None, <<"n">> :> PyInt(1)),
                     CellMeasurement(DateTimeTz(1800, 0), None, <<"n">> :> PyInt(2)),
                     CellMeasurement(DateTimeTz(5400, 0), None, <<"n">> :> PyInt(3))} :
        Len(table_rows) < MaxViewRows /\ Add(item)
    \/ \E c \in Collections : Room /\ sort_by(c, <<Timestamp>>)
    \/ \E c \in Collections : Room /\ limit(c, 1)
    \/ \E c \in Collections : Iterate(c)

SpecOrder == Init /\ [][NextOrder]_vars

(***************************************************************************)
(* Serialization by itself: a key and a value are drawn, a serializer that *)
(* takes them is applied and its result deserialized, and dicts made of    *)
(* them are collapsed and expanded.                                        *)
(***************************************************************************)
SerialKeys ==
    {<<"x">>, <<"x", "int">>, <<"is", "x">>, <<"timestamp">>, <<"start", "timestamp">>,
     <<"x", "wgs84">>}

SerialValues ==
    {None, PyStr("foo"), PyStr("maybe"), PyInt(5), PyFloat(15), PyBool(TRUE),
     DateTime(0), TimeDelta(5), Angle(15), WgsPoint(520, 50), LTE,
     Cell(PyStr("NR"), "204-1-2000"), LocationInfo(<<"a">> :> PyStr("s")),
     Dict(<<"a">> :> PyStr("s")), Dict(EmptyMap), Dict(<<"lat">> :> PyStr("52.0"))}

InitSerialization ==
    /\ fields = NoFields
    /\ table_columns = [k \in {} |-> ""]
    /\ table_rows = <<>>
    /\ indexes = {}
    /\ views = <<>>
    /\ added = <<>>
    /\ ret = Returned("__init__", 0, "", <<>>)
    /\ arg \in [key : SerialKeys, value : SerialValues]

\* serializer.to_dict(key, value), then _deserialize_property on its result
Deserialized(encoded) ==
    _deserialize_property(CELL_MEASUREMENT_SERIALIZERS, encoded.key, encoded.value)

Serialize(s) ==
    /\ is_dictable(s, arg.key, arg.value)
    /\ \E d \in {Deserialized(to_dict(s, arg.key, arg.value))} :
        ret' = Returned("from_dict", s, d.err, <<d.key, d.value>>)
    /\ UNCHANGED <<fields, table_columns, table_rows, indexes, views, added, arg>>

\* _serialize_property on the key and the value, with the serializers of the
\* registry in their order
SerializeProperty ==
    /\ \E p \in {_serialize_property(CELL_MEASUREMENT_SERIALIZERS, arg.key, arg.value, {})} :
        ret' = Returned("_serialize_property", 0, p.err, <<p.key, p.value>>)
    /\ UNCHANGED <<fields, table_columns, table_rows, indexes, views, added, arg>>

\* _collapse_dict(d), then _expand_dict on its result
Collapse(d) ==
    /\ \E flat \in {_collapse_dict(d, CELL_MEASUREMENT_SERIALIZERS, {})} :
        IF flat.err # ""
        THEN ret' = Returned("_collapse_dict", d, flat.err, <<>>)
        ELSE \E o \in _expand_dict(flat.map, CELL_MEASUREMENT_SERIALIZERS) :
                ret' = Returned("_expand_dict", d, o.err, o.value)
    /\ UNCHANGED <<fields, table_columns, table_rows, indexes, views, added, arg>>

NextSerialization ==
    \/ \E s \in Registry : Serialize(s)
    \/ SerializeProperty
    \/ Collapse(arg.key :> arg.value)
    \/ Collapse(<<"y">> :> Dict(arg.key :> arg.value))

SpecSerialization == InitSerialization /\ [][NextSerialization]_vars

(***************************************************************************)
(* Functions beside the collection, applied to inputs drawn from small     *)
(* sets: comma-separated values read and written (a file is its rows, a    *)
(* row the sequence of its fields, a field a str), and an antenna looked   *)
(* up in the cell database (an antenna is a str that names it), and cell   *)
(* identities parsed and compared.                                         *)
(***************************************************************************)
\* _read_dictable_from_csv of a file-like object, iterated to its end: the
\* first row is the header; of every other row the empty fields become None,
\* dict(zip(header, row)) is expanded, record["id"] is set and
\* create_item (CellMeasurement) is called.  What is left is the items
\* yielded and the error that ended the iteration.
_read_dictable_from_csv(resource_name, header, rows) ==
    LET Flat(row) == [name \in {header[j] : j \in 1..Len(header)} |->
                        LET j == CHOOSE j \in 1..Len(header) : header[j] = name
                        IN  IF row[j] = "" THEN None ELSE PyStr(row[j])]
        Created(rownum, e) ==
            LET record == (<<"id">> :> PyStr(resource_name \o ":" \o ToString(rownum + 2)))
                            @@ e.value
            IN  IF e.err # "" THEN e
                ELSE IF <<"timestamp">> \notin DOMAIN record \/ <<"cell">> \notin DOMAIN record
                THEN [err |-> "TypeError", value |-> EmptyMap]
                ELSE IF \/ record[<<"timestamp">>].t # "datetime"
                        \/ record[<<"cell">>].t \notin {"None", "CellIdentity"}
                THEN [err |-> "AssertionError", value |-> EmptyMap]
                ELSE [err |-> "", value |-> record]
        Outcomes(i) == {Created(i - 1, e) :
                            e \in _expand_dict(Flat(rows[i]), CELL_MEASUREMENT_SERIALIZERS)}
    IN  /\ arg' = [resource_name |-> resource_name, header |-> header, rows |-> rows]
        /\ \E made \in [1..Len(rows) -> UNION {Outcomes(i) : i \in 1..Len(rows)}] :
            /\ \A i \in 1..Len(rows) : made[i] \in Outcomes(i)
            /\ \E n \in 0..Len(rows) :
                /\ \A i \in 1..n : made[i].err = ""
                /\ n < Len(rows) => made[n + 1].err # ""
                /\ ret' = Returned("_read_dictable_from_csv", 0,
                                   IF n < Len(rows) THEN made[n + 1].err ELSE "",
                                   [i \in 1..n |-> made[i].value])
        /\ UNCHANGED <<fields, table_columns, table_rows, indexes, views, added>>

\* _write_dictable_to_csv to a file-like object: the rows written.  The
\* labels are the sorted keys of the collapsed first item; sorted is the
\* order of the texts of the names, which for the names of the model is
\* the order of this list.
_write_dictable_to_csv(items) ==
    LET sorted == << <<<<"cell">>>>, <<<<"cell">>, <<"identifier">>>>, <<<<"cell">>, <<"radio">>>>,
                     <<<<"n", "int">>>>, <<<<"timestamp">>>>, <<<<"track">>>>, <<<<"x">>>>,
                     <<<<"x">>, <<"a">>>> >>
        collapsed == [i \in 1..Len(items) |->
                    _collapse_dict(items[i], CELL_MEASUREMENT_SERIALIZERS, {})]
        labels == SelectSeq(sorted, LAMBDA name : name \in DOMAIN collapsed[1].map)
        Written(value) == IF value = None THEN PyStr("") ELSE value
    IN  /\ arg' = items
        /\ \E n \in 0..Len(items) :
            /\ \A i \in 1..n : collapsed[i].err = ""
            /\ n < Len(items) => collapsed[n + 1].err # ""
            /\ ret' = Returned("_write_dictable_to_csv", 0,
                               IF n < Len(items) THEN collapsed[n + 1].err ELSE "",
                               IF n = 0 THEN <<>>
                               ELSE <<[j \in 1..Len(labels) |-> PyStr(ColumnText(labels[j]))]>>
                                    \o [i \in 1..n |->
                                          [j \in 1..Len(labels) |->
                                            IF labels[j] \in DOMAIN collapsed[i].map
                                            THEN Written(collapsed[i].map[labels[j]])
                                            ELSE PyStr("")]])
        /\ UNCHANGED <<fields, table_columns, table_rows, indexes, views, added>>

\* celldb.duplicate_policy: exception, warn, take_first and drop, as
\* [err, value, warned]
duplicate_policy(name, results) ==
    CASE name = "exception" -> [err |-> "ValueError", value |-> None, warned |-> FALSE]
      [] name = "warn" -> [err |-> "", value |-> results[1], warned |-> TRUE]
      [] name = "take_first" -> [err |-> "", value |-> results[1], warned |-> FALSE]
      [] name = "drop" -> [err |-> "", value |-> None, warned |-> FALSE]

\* PgCollection.get of a collection made with the policy on_duplicate, or
\* with none ("", for which __init__ takes duplicate_policy.warn), results
\* being what search returns for the date and the cell
PgCollection_get(on_duplicate, results) ==
    LET _on_duplicate == IF on_duplicate = "" THEN "warn" ELSE on_duplicate
        found == IF Len(results) = 0 THEN [err |-> "", value |-> None, warned |-> FALSE]
                 ELSE IF Len(results) > 1 THEN duplicate_policy(_on_duplicate, results)
                 ELSE [err |-> "", value |-> results[1], warned |-> FALSE]
    IN  /\ arg' = [on_duplicate |-> on_duplicate, results |-> results]
        /\ ret' = Returned("get", 0, found.err, [value |-> found.value, warned |-> found.warned])
        /\ UNCHANGED <<fields, table_columns, table_rows, indexes, views, added>>

\* telcell.cell_identity.CellIdentity.create: the class of the identity and
\* the components its constructor keeps; radio is None or a str, the other
\* components None or an int
create(radio, mcc, mnc, lac, ci, eci) ==
    LET upper == ("gsm" :> "GSM") @@ ("GSM" :> "GSM") @@ ("LTE" :> "LTE") @@ ("XX" :> "XX")
        r == IF radio = None THEN "" ELSE upper[radio.v]
        Cgi(class, name) == [err |-> "", class |-> class, radio |-> name, mcc |-> mcc,
                             mnc |-> mnc, lac |-> lac, ci |-> ci, eci |-> None]
        Ecgi(class, name) == [err |-> "", class |-> class, radio |-> name, mcc |-> mcc,
                              mnc |-> mnc, lac |-> None, ci |-> None, eci |-> eci]
    IN  CASE r = "GSM" -> Cgi("GSMCell", PyStr("GSM"))
          [] r = "LTE" -> Ecgi("LTECell", PyStr("LTE"))
          [] r \notin {"", "GSM", "LTE"} ->
                [Cgi("", None) EXCEPT !.err = "ValueError"]
          [] r = "" /\ eci # None /\ (ci = None \/ lac = None) ->
                Ecgi("EutranCellGlobalIdentity", None)
          [] r = "" /\ ci # None /\ lac # None /\ eci = None ->
                Cgi("CellGlobalIdentity", None)
          [] r = "" /\ eci = None /\ lac = None /\ ci = None ->
                [Cgi("CellIdentity", None) EXCEPT !.lac = None, !.ci = None]
          [] OTHER -> [Cgi("", None) EXCEPT !.err = "ValueError"]

\* a == b of two identities: the __eq__ of the class of b when it is a proper
\* subclass of the class of a, else that of the class of a; CellIdentity,
\* CellGlobalIdentity and EutranCellGlobalIdentity each define one
__eq__(a, b) ==
    LET cgi == {"CellGlobalIdentity", "GSMCell"}
        ecgi == {"EutranCellGlobalIdentity", "LTECell"}
        Subclass(x, y) == \/ y = "CellIdentity" /\ x # y
                          \/ y = "CellGlobalIdentity" /\ x = "GSMCell"
                          \/ y = "EutranCellGlobalIdentity" /\ x = "LTECell"
        Base(self, other) == self.radio = other.radio /\ self.mcc = other.mcc
                                /\ self.mnc = other.mnc
        Eq(self, other) ==
            IF self.class \in cgi
            THEN other.class \in cgi /\ Base(self, other)
                    /\ self.lac = other.lac /\ self.ci = other.ci
            ELSE IF self.class \in ecgi
            THEN other.class \in ecgi /\ Base(self, other) /\ self.eci = other.eci
            ELSE Base(self, other)
    IN  IF Subclass(b.class, a.class) THEN Eq(b, a) ELSE Eq(a, b)

\* unique_identifier, of which __hash__ is the hash: plmn, cgi or ecgi, after
\* the radio when there is one; "?" stands for a component that is None or 0
unique_identifier(c) ==
    LET Or(component) == IF component = None \/ component.v = 0 THEN "?"
                         ELSE ToString(component.v)
        plmn == Or(c.mcc) \o "-" \o Or(c.mnc)
        own == IF c.class \in {"CellGlobalIdentity", "GSMCell"}
               THEN plmn \o "-" \o Or(c.lac) \o "-" \o Or(c.ci)
               ELSE IF c.class \in {"EutranCellGlobalIdentity", "LTECell"}
               THEN plmn \o "-" \o Or(c.eci)
               ELSE plmn
    IN  IF c.class # "CellIdentity" /\ c.radio # None THEN c.radio.v \o "/" \o own ELSE own

\* CellIdentity.parse of two specs, each given as the groups the pattern
\* matches in it, the numbers converted by int; then the two identities are
\* compared and their hashes taken
Parse(s1, s2) ==
    LET a == create(s1.radio, s1.mcc, s1.mnc, s1.lac, s1.ci, s1.eci)
        b == create(s2.radio, s2.mcc, s2.mnc, s2.lac, s2.ci, s2.eci)
    IN  /\ arg' = <<s1, s2>>
        /\ ret' = IF a.err # "" \/ b.err # ""
                  THEN Returned("parse", 0, "ValueError", <<>>)
                  ELSE Returned("parse", 0, "",
                                [a |-> a, b |-> b, eq |-> __eq__(a, b),
                                 hash |-> <<unique_identifier(a), unique_identifier(b)>>])
        /\ UNCHANGED <<fields, table_columns, table_rows, indexes, views, added>>

NextFunctions ==
    \/ \E s1, s2 \in
            {[radio |-> radio, mcc |-> PyInt(204), mnc |-> PyInt(1), lac |-> rest[1],
              ci |-> rest[2], eci |-> rest[3]] :
                radio \in {None, PyStr("GSM"), PyStr("gsm"), PyStr("LTE"), PyStr("XX")},
                rest \in {<<None, None, None>>, <<None, None, PyInt(2000)>>,
                          <<PyInt(2), PyInt(2000), None>>}}
            \cup {[radio |-> None, mcc |-> PyInt(204), mnc |-> PyInt(2), lac |-> None,
                   ci |-> None, eci |-> None]} :
        Parse(s1, s2)
    \/ \E on_duplicate \in {"", "exception", "warn", "take_first", "drop"}, n \in 0..MaxRows :
        \E results \in [1..n -> {PyStr("A"), PyStr("B")}] :
            PgCollection_get(on_duplicate, results)
    \/ \E resource_name \in {"", "res"},
          header \in {<< <<<<"cell">>>>, <<<<"timestamp">>>>, <<<<"track">>>> >>,
                      << <<<<"cell">>>>, <<<<"id">>>>, <<<<"timestamp">>>>, <<<<"track">>>> >>},
          n \in 0..2 :
        \E rows \in [1..n -> {<<"", "2023-01-01T00:00:00", "A">>,
                               <<"", "", "B">>,
                               <<"", "m1", "2023-01-01T00:00:00", "A">>,
                               <<"", "", "2023-01-01T00:01:00", "B">>}] :
            /\ \A i \in 1..n : Len(rows[i]) = Len(header)
            /\ _read_dictable_from_csv(resource_name, header, rows)
    \/ \E n \in 0..2 :
        \E items \in [1..n -> {TrackItem(0, "A", 1),
                                CellMeasurement(DateTime(60), LTE, <<"track">> :> PyStr("B")),
                                CellMeasurement(DateTime(0), None, <<"x">> :> PyStr("foo")),
                                CellMeasurement(DateTime(0), None,
                                                <<"x">> :> Dict(<<"a">> :> PyStr("s"))),
                                CellMeasurement(DateTime(0), None, <<"x">> :> PyList("[1, 2]"))}] :
            _write_dictable_to_csv(items)

SpecFunctions == Init /\ [][NextFunctions]_vars

(***************************************************************************)
(* Properties of add and iteration on the root collection.                 *)
(***************************************************************************)
\* Item.__eq__ and CellMeasurement.__eq__: the same fields with equal values
ItemEq(a, b) ==
    /\ DOMAIN a = DOMAIN b
    /\ \A k \in DOMAIN a : PyEq(a[k], b[k])

\* list.__eq__ on lists of items
ItemsEq(s, t) ==
    /\ Len(s) = Len(t)
    /\ \A i \in 1..Len(s) : ItemEq(s[i], t[i])

\* the column of a top-level key, and of its value once the key is composite
ColumnOf(key) == <<key>>

\* a is a strict dotted prefix of b
StrictPrefix(a, b) == Len(a) < Len(b) /\ SubSeq(b, 1, Len(a)) = a

IsScalar(value) == value # None /\ ~IsDict(value)

\* C1: every iteration of the root collection yields exactly the items added
\* so far, in insertion order, each equal to the item that was added
C1_IterateYieldsAdded ==
    (ret.op = "iter" /\ ret.of = 0) => (ret.err = "" /\ ItemsEq(ret.value, added))

\* C4: once x was added as a scalar and a later add supplied x as a
\* composite, the schema has a column x.value that holds, in every earlier
\* row, the scalar that row was added with
C4_PromotionKeepsScalar ==
    \A j \in 1..Len(added) :
        ( /\ <<"x">> \in DOMAIN added[j]
          /\ IsDict(added[j][<<"x">>])
          /\ \E i \in 1..(j - 1) :
                <<"x">> \in DOMAIN added[i] /\ IsScalar(added[i][<<"x">>]) )
        => /\ ValueField(ColumnOf(<<"x">>)) \in DOMAIN table_columns
           /\ \A i \in 1..(j - 1) :
                (<<"x">> \in DOMAIN added[i] /\ IsScalar(added[i][<<"x">>]))
                => table_rows[i][ValueField(ColumnOf(<<"x">>))]
                        = sql_literal(added[i][<<"x">>])

\* C5: no column name of the schema is a strict dotted prefix of another
C5_NoColumnIsPrefix ==
    \A a \in DOMAIN table_columns, b \in DOMAIN table_columns : ~StrictPrefix(a, b)

\* the item has a scalar for a key of which the table has child columns only
CollidesWithComposite(item, columns) ==
    \E key \in DOMAIN item :
        /\ IsScalar(item[key])
        /\ ColumnOf(key) \notin DOMAIN columns
        /\ \E c \in DOMAIN columns : StrictPrefix(ColumnOf(key), c)

\* C6: an add whose item has a scalar for a key that has child columns only
\* reports SchemaConflict, stores nothing and leaves the schema as it was
C6_CollisionIsReported ==
    [][(ret'.op = "add" /\ CollidesWithComposite(arg', table_columns))
        => /\ ret'.err = "SchemaConflict"
           /\ table_rows' = table_rows
           /\ table_columns' = table_columns]_vars

\* the columns of the next state that ALTER TABLE .. ADD COLUMN made: the new
\* names but for those a column of this state was renamed to
AddedColumns ==
    {c \in DOMAIN table_columns' \ DOMAIN table_columns :
        ~(/\ Len(c) > 1
          /\ ParentField(c) \in DOMAIN table_columns \ DOMAIN table_columns'
          /\ c = ValueField(ParentField(c)))}

\* C7: every row has a value, possibly null, for every column of the schema,
\* and a column that an add made is null in the rows there were before it
C7_RowsCoverSchema ==
    [][/\ \A i \in 1..Len(table_rows') : DOMAIN table_rows'[i] = DOMAIN table_columns'
       /\ \A c \in AddedColumns :
            \A i \in 1..Len(table_rows) : table_rows'[i][c] = None]_vars

\* a later add made a column: the first row is null in it, the second is not
C7_Witness ==
    /\ Len(table_rows) >= 2
    /\ \E c \in DOMAIN table_columns :
        /\ c \in DOMAIN table_rows[1] /\ table_rows[1][c] = None
        /\ c \in DOMAIN table_rows[2] /\ table_rows[2][c] # None

\* C8: the number of columns of the schema never decreases
C8_ColumnCountGrows ==
    [][Cardinality(DOMAIN table_columns') >= Cardinality(DOMAIN table_columns)]_vars

\* add renamed x to x.value and made a column next to it
C8_Witness ==
    /\ ValueField(ColumnOf(<<"x">>)) \in DOMAIN table_columns
    /\ ColumnOf(<<"x">>) \notin DOMAIN table_columns
    /\ Cardinality(DOMAIN table_columns) >= 4

\* C14: an add of an item that has a value of a type no serializer takes,
\* which is not None, a str or a dict either, raises an error and stores
\* nothing, under whatever key the value stands
C14_UnsupportedValueFails ==
    (ret.op = "add" /\ \E key \in DOMAIN arg : arg[key].t = "list")
    => (ret.err # "" /\ Len(table_rows) = Len(added))

\* C17: the collection starts without fields and without a table; an add
\* that returns normally leaves it with fields, which are the columns of its
\* table; and once it has fields no step leaves it without
C17_ActiveStaysActive ==
    /\ fields.none /\ DOMAIN table_columns = {}
    /\ [][/\ (fields.none /\ ret'.op = "add" /\ ret'.err = "")
                => (~fields'.none /\ DOMAIN fields'.map = DOMAIN table_columns'
                    /\ DOMAIN fields'.map # {})
          /\ ~fields.none => ~fields'.none]_vars

\* an add raised on a collection that had fields
C17_Witness ==
    ret.op = "add" /\ ret.err # "" /\ ~fields.none /\ Len(added) >= 1

(***************************************************************************)
(* Properties of the queries.                                              *)
(***************************************************************************)
QueryOps ==
    {"select_by_value", "select_by_range", "select_by_values", "sort_by", "limit"}

\* C9: a query on a collection or view leaves the rows, the row count and the
\* schema of the receiver as they were
C9_QueryLeavesReceiver ==
    [][\A c \in Collections :
        (ret'.op \in QueryOps /\ ret'.of = c)
        => /\ RowsOf(Db', c) = RowsOf(Db, c)
           /\ len(Db', c) = len(Db, c)
           /\ FieldsOf(Db', c) = FieldsOf(Db, c)
           /\ ColumnsOf(Db', c) = ColumnsOf(Db, c)]_vars

\* a query was made on a view that has rows
C9_Witness ==
    /\ ret.op \in QueryOps /\ ret.err = ""
    /\ ret.of > 0 /\ ret.value = Len(views)
    /\ views[ret.value].parent = ret.of
    /\ Len(RowsOf(Db, ret.of)) >= 1

\* a row as a query selects it: the named columns
Project(row, names) == [name \in names |-> Column(row, name)]

\* the rows of c of which the columns named have the value and lie in the
\* range asked for
Matching(db, c, equals, range) ==
    SelectSeq(RowsOf(db, c),
              LAMBDA row :
                /\ \A key \in DOMAIN equals \cup DOMAIN range : key \in ColumnsOf(db, c)
                /\ Where(db, c, row, equals, NoConstraints, range))

\* view v is a filter of one kind only, made of a collection with fields
OnlyFilters(v) ==
    /\ ~v.detached
    /\ (v.equals = NoConstraints) # (v.range = NoConstraints)
    /\ v.in_collection = NoConstraints /\ v.sort_keys = <<>> /\ v.limit = None

\* view outer is an equality filter of a range filter of a collection, or a
\* range filter of an equality filter of it
IsChain(inner, outer) ==
    /\ inner > 0
    /\ OnlyFilters(views[inner]) /\ OnlyFilters(views[outer])
    /\ (views[inner].equals = NoConstraints) # (views[outer].equals = NoConstraints)

\* C10: an equality filter and a range filter, made one of the other in
\* either order, select exactly the rows of the collection that satisfy both
C10_FiltersCompose ==
    \A outer \in 1..Len(views) :
        IsChain(views[outer].parent, outer)
        => RowsOf(Db, outer)
            = [i \in 1..Len(Matching(Db, views[views[outer].parent].parent,
                                     views[views[outer].parent].equals @@ views[outer].equals,
                                     views[views[outer].parent].range @@ views[outer].range))
                |-> Project(Matching(Db, views[views[outer].parent].parent,
                                     views[views[outer].parent].equals @@ views[outer].equals,
                                     views[views[outer].parent].range @@ views[outer].range)[i],
                            DOMAIN views[outer].select)]

\* the items added of which the row in the table is selected by the
\* constraints, in the order of the rows
Positions(n) == [i \in 1..n |-> i]

AddedMatching(db, equals, range) ==
    LET hits == SelectSeq(Positions(Len(db.rows)),
                          LAMBDA i :
                            Where(db, 0, db.rows[i], equals, NoConstraints, range))
    IN  [j \in 1..Len(hits) |-> added[hits[j]]]

\* view v was asked of the root collection, as a filter of one kind
IsFilterOfRoot(v) ==
    /\ views[v].parent = 0
    /\ (views[v].equals = NoConstraints) # (views[v].range = NoConstraints)
    /\ views[v].in_collection = NoConstraints
    /\ views[v].sort_keys = <<>> /\ views[v].limit = None

\* C11: whenever a filter of the root collection on columns the collection
\* has is iterated or counted, it yields exactly the items now in the
\* collection that the filter selects, whatever the collection held when the
\* filter was made
C11_ViewIsLive ==
    \A v \in 1..Len(views) :
        (ret.op \in {"iter", "len"} /\ ret.of = v /\ IsFilterOfRoot(v)
            /\ DOMAIN views[v].equals \cup DOMAIN views[v].range
                    \subseteq DOMAIN table_columns
            /\ Len(added) = Len(table_rows))
        => /\ ret.err = ""
           /\ ret.op = "len"
                => ret.value = Len(AddedMatching(Db, views[v].equals, views[v].range))
           /\ ret.op = "iter"
                => ItemsEq(ret.value, AddedMatching(Db, views[v].equals, views[v].range))

\* C12: when an add makes a new column in the table, every view of the
\* table that filters on columns it was made with keeps its columns and its
\* rows, and has the row of the new item as a further row exactly when the
\* item has the values the filter asks for under the names the view was made
\* with
C12_ViewKeepsColumns ==
    [][\A v \in 1..Len(views) :
        (/\ ret'.op = "add" /\ ret'.err = ""
         /\ DOMAIN table_columns' # DOMAIN table_columns
         /\ ~views[v].detached /\ views[v].parent = 0
         /\ \A k \in DOMAIN views[v].equals :
                \E n \in DOMAIN views[v].select : views[v].select[n] = k)
        => /\ ColumnsOf(Db', v) = ColumnsOf(Db, v)
           /\ FieldsOf(Db', v) = FieldsOf(Db, v)
           /\ SubSeq(RowsOf(Db', v), 1, Len(RowsOf(Db, v))) = RowsOf(Db, v)
           /\ Len(RowsOf(Db', v)) = Len(RowsOf(Db, v))
                + (IF \A k \in DOMAIN views[v].equals :
                        \E n \in DOMAIN views[v].select :
                            /\ views[v].select[n] = k
                            /\ n \in DOMAIN serialize_item(arg').map
                            /\ serialize_item(arg').map[n] = views[v].equals[k]
                   THEN 1 ELSE 0)]_vars

\* C13: a selection or get_unique_values that names a column that is no
\* field of the receiver raises an error
C13_AbsentColumnFails ==
    /\ (/\ ret.op \in {"select_by_value", "select_by_range", "select_by_values"}
        /\ \E key \in DOMAIN arg :
                FieldsOf(Db, ret.of).none \/ key \notin DOMAIN FieldsOf(Db, ret.of).map)
       => ret.err # ""
    /\ (/\ ret.op = "get_unique_values"
        /\ \E i \in 1..Len(arg) :
                FieldsOf(Db, ret.of).none \/ arg[i] \notin DOMAIN FieldsOf(Db, ret.of).map)
       => ret.err # ""

C22_DistinctOfColumns ==
    (/\ ret.op = "get_unique_values"
     /\ Len(added) = Len(table_rows) /\ Len(added) >= 1
     /\ IF ret.of = 0 THEN TRUE
        ELSE /\ IsFilterOfRoot(ret.of) /\ ~views[ret.of].detached
             /\ DOMAIN views[ret.of].equals \cup DOMAIN views[ret.of].range
                    \subseteq DOMAIN table_columns
     /\ \A i \in 1..Len(arg) : arg[i] \in DOMAIN FieldsOf(Db, ret.of).map)
    => LET selected == IF ret.of = 0 THEN added
                       ELSE AddedMatching(Db, views[ret.of].equals, views[ret.of].range)
           ValueOf(item, name) == item[<<name[1][1]>>]
       IN  /\ ret.err = ""
           /\ ret.value = {IF Len(arg) = 1 THEN ValueOf(selected[i], arg[1])
                           ELSE [j \in 1..Len(arg) |-> ValueOf(selected[i], arg[j])] :
                                i \in 1..Len(selected)}

\* C23: once an item without accuracy and then an item with the accuracy 10
\* are added, the table has a column accuracy, which is NULL in the first
\* row; a selection of track A made of the collection then counts both rows;
\* and the first item is read back without accuracy, or with accuracy None
C23_NullableAccuracy ==
    added = <<SensorItem(0, EmptyMap), SensorItem(60, <<"accuracy">> :> PyInt(10))>>
    => /\ <<<<"accuracy">>>> \in DOMAIN table_columns
       /\ Column(table_rows[1], <<<<"accuracy">>>>) = None
       /\ \A v \in 1..Len(views) :
            (/\ ret.op = "len" /\ ret.of = v /\ ~views[v].detached /\ views[v].parent = 0
             /\ DOMAIN views[v].select = DOMAIN table_columns)
            => ret.value = 2
       /\ (ret.op = "iter" /\ ret.of = 0)
            => /\ ret.err = ""
               /\ <<"accuracy">> \in DOMAIN ret.value[1] => ret.value[1][<<"accuracy">>] = None

\* the statement of C23 for the column accuracy_int, which is the column the
\* table has
C23_NullableAccuracyInt ==
    added = <<SensorItem(0, EmptyMap), SensorItem(60, <<"accuracy">> :> PyInt(10))>>
    => /\ <<<<"accuracy", "int">>>> \in DOMAIN table_columns
       /\ Column(table_rows[1], <<<<"accuracy", "int">>>>) = None
       /\ \A v \in 1..Len(views) :
            (/\ ret.op = "len" /\ ret.of = v /\ ~views[v].detached /\ views[v].parent = 0
             /\ DOMAIN views[v].select = DOMAIN table_columns)
            => ret.value = 2
       /\ (ret.op = "iter" /\ ret.of = 0)
            => /\ ret.err = ""
               /\ <<"accuracy">> \in DOMAIN ret.value[1] => ret.value[1][<<"accuracy">>] = None

\* C29: an add that raises leaves the rows, the fields of the collection and
\* the columns of its table as they were, and after every add the fields are
\* the columns of the table
C29_AddIsAtomic ==
    [][ret'.op = "add"
        => /\ ret'.err # ""
                => /\ table_rows' = table_rows
                   /\ fields' = fields
                   /\ table_columns' = table_columns
           /\ IF fields'.none THEN table_columns' = EmptyMap
              ELSE fields'.map = table_columns']_vars

\* the statement of C29 for the adds that serialization rejects; under every
\* add that raises the number of rows stays, and after every add of items
\* whose keys differ by more than their case the fields are the columns of
\* the table
C29_RejectedBySerialization ==
    [][ret'.op = "add"
        => /\ ret'.err # "" => Len(table_rows') = Len(table_rows)
           /\ serialize_item(arg').err # ""
                => /\ ret'.err = serialize_item(arg').err
                   /\ table_rows' = table_rows
                   /\ fields' = fields
                   /\ table_columns' = table_columns
           /\ IF fields'.none THEN table_columns' = EmptyMap
              ELSE fields'.map = table_columns']_vars

\* C30: a query (select_by_value, select_by_range, select_by_values, sort_by
\* with keys, limit) on a collection that has no fields yet, no item having
\* been added, raises nothing and returns a new collection that is empty; a
\* query that raised has changed nothing, and one that returned a detached
\* collection was made on a collection without fields
C30_QueryOfEmpty ==
    (/\ ret.op \in QueryOps
     /\ IF ret.err # "" THEN FieldsOf(Db, ret.of).none ELSE views[ret.value].detached)
    => IF ret.err # "" THEN FALSE
       ELSE /\ views[ret.value].parent = ret.of
            /\ len(Db, ret.value) = 0
            /\ iter(Db, ret.value) = {[err |-> "", value |-> <<>>]}

\* the statement of C30 for the queries other than sort_by; sort_by with keys
\* on a collection that has no fields raises TypeError
C30_SelectOrLimitOfEmpty ==
    (/\ ret.op \in QueryOps
     /\ IF ret.err # "" THEN FieldsOf(Db, ret.of).none ELSE views[ret.value].detached)
    => IF ret.err # "" THEN ret.op = "sort_by" /\ ret.err = "TypeError"
       ELSE /\ ret.op # "sort_by"
            /\ views[ret.value].parent = ret.of
            /\ len(Db, ret.value) = 0
            /\ iter(Db, ret.value) = {[err |-> "", value |-> <<>>]}

\* C28: a limit made of a collection that had fields yields the first
\* min(n, count) items of the iteration of its receiver, and a limit of a
\* collection sorted by timestamp yields the min(n, count) items of that
\* collection with the earliest timestamps, the earliest first
C28_LimitOfSorted ==
    \A v \in 1..Len(views) :
        (~views[v].detached /\ views[v].limit # None)
        => LET n == views[v].limit.v
               p == views[v].parent
               Ord(item) == item[<<"timestamp">>].v - item[<<"timestamp">>].utcoffset
               First(items) == SubSeq(items, 1, IF n < Len(items) THEN n ELSE Len(items))
           IN  \A o \in iter(Db, v) :
                /\ o.err = ""
                /\ \E r \in iter(Db, p) : r.err = "" /\ o.value = First(r.value)
                /\ (p # 0 /\ ~views[IF p = 0 THEN 1 ELSE p].detached
                        /\ views[IF p = 0 THEN 1 ELSE p].sort_keys = <<Timestamp>>)
                   => \E c \in iter(Db, views[IF p = 0 THEN 1 ELSE p].parent) :
                        /\ Len(o.value) = Len(First(c.value))
                        /\ \A i, j \in 1..Len(o.value) :
                                i < j => Ord(o.value[i]) <= Ord(o.value[j])
                        /\ \A i \in 1..Len(o.value), j \in 1..Len(c.value) :
                                \/ Ord(o.value[i]) <= Ord(c.value[j])
                                \/ \E k \in 1..Len(o.value) : o.value[k] = c.value[j]

\* the statement of C28 for limit alone, and for a limit of a collection
\* sorted by timestamp whose timestamps all have one UTC offset
C28_LimitOfReceiver ==
    \A v \in 1..Len(views) :
        (~views[v].detached /\ views[v].limit # None)
        => LET n == views[v].limit.v
               p == views[v].parent
               Ord(item) == item[<<"timestamp">>].v - item[<<"timestamp">>].utcoffset
               First(items) == SubSeq(items, 1, IF n < Len(items) THEN n ELSE Len(items))
           IN  \A o \in iter(Db, v) :
                /\ o.err = ""
                /\ \E r \in iter(Db, p) : r.err = "" /\ o.value = First(r.value)
                /\ (p # 0 /\ ~views[IF p = 0 THEN 1 ELSE p].detached
                        /\ views[IF p = 0 THEN 1 ELSE p].sort_keys = <<Timestamp>>)
                   => \E c \in iter(Db, views[IF p = 0 THEN 1 ELSE p].parent) :
                        (\A i, j \in 1..Len(c.value) :
                            c.value[i][<<"timestamp">>].utcoffset
                                = c.value[j][<<"timestamp">>].utcoffset)
                        => /\ Len(o.value) = Len(First(c.value))
                           /\ \A i \in 1..Len(o.value), j \in 1..Len(c.value) :
                                \/ Ord(o.value[i]) <= Ord(c.value[j])
                                \/ \E k \in 1..Len(o.value) : o.value[k] = c.value[j]

\* C18: finalizing a collection leaves the table, its rows and the fields of
\* the root as they were, and leaves every other collection that is alive as
\* it was, with the rows it had; finalizing the root changes no view at all
C18_DisposeReleasesOwnView ==
    [][ret'.op = "__del__"
        => /\ table_rows' = table_rows /\ table_columns' = table_columns
           /\ fields' = fields
           /\ ret'.of = 0 => views' = views
           /\ \A v \in 1..Len(views) :
                (v # ret'.of /\ views[v].alive)
                => /\ views'[v] = views[v]
                   /\ RowsOf(Db', v) = RowsOf(Db, v)]_vars

\* a view was finalized while another view, which has rows, was alive
C18_Witness ==
    /\ ret.op = "__del__" /\ ret.of > 0 /\ ~views[ret.of].detached
    /\ \E v \in 1..Len(views) : views[v].alive /\ Len(RowsOf(Db, v)) >= 1

\* C19: a range of one column of the root collection, made when the collection
\* had the column, holds exactly the rows of the items whose value v of the
\* field has low <= v (when low is given) and v < high (when high is given),
\* in the order of the values themselves: datetimes as instants, ints as numbers
C19_RangeIsHalfOpen ==
    \A v \in 1..Len(views) :
        (/\ ~views[v].detached /\ views[v].parent = 0
         /\ Len(added) = Len(table_rows)
         /\ \E k \in DOMAIN table_columns : DOMAIN views[v].range = {k})
        => LET k == CHOOSE k \in DOMAIN views[v].range : TRUE
               low == views[v].range[k][1]
               high == views[v].range[k][2]
               Ord(x) == IF "utcoffset" \in DOMAIN x THEN x.v - x.utcoffset ELSE x.v
               InRange(x) == /\ low # None => Ord(low) <= Ord(x)
                             /\ high # None => Ord(x) < Ord(high)
               hits == SelectSeq(Positions(Len(added)),
                                 LAMBDA i : InRange(added[i][<<k[1][1]>>]))
               rows == RowsOf(Db, v)
           IN  /\ Len(rows) = Len(hits)
               /\ \A j \in 1..Len(hits) :
                    Column(rows[j], k) = Column(table_rows[hits[j]], k)

\* the statement of C19 for the ranges whose bounds have the UTC offset of the
\* stored timestamps, and for the ranges of an int column
C19_RangeSameOffset ==
    \A v \in 1..Len(views) :
        (/\ ~views[v].detached /\ views[v].parent = 0
         /\ Len(added) = Len(table_rows)
         /\ \E k \in DOMAIN table_columns : DOMAIN views[v].range = {k}
         /\ \A k \in DOMAIN views[v].range : \A i \in 1..2 :
                LET bound == views[v].range[k][i]
                IN  (bound # None /\ "utcoffset" \in DOMAIN bound) => bound.utcoffset = 0)
        => LET k == CHOOSE k \in DOMAIN views[v].range : TRUE
               low == views[v].range[k][1]
               high == views[v].range[k][2]
               Ord(x) == IF "utcoffset" \in DOMAIN x THEN x.v - x.utcoffset ELSE x.v
               InRange(x) == /\ low # None => Ord(low) <= Ord(x)
                             /\ high # None => Ord(x) < Ord(high)
               hits == SelectSeq(Positions(Len(added)),
                                 LAMBDA i : InRange(added[i][<<k[1][1]>>]))
               rows == RowsOf(Db, v)
           IN  /\ Len(rows) = Len(hits)
               /\ \A j \in 1..Len(hits) :
                    Column(rows[j], k) = Column(table_rows[hits[j]], k)

\* C20: a + b raises nothing, and the new collection yields the items that a
\* yields followed by the items that b yields, as many as a and b have
\* together
C20_SumIsConcatenation ==
    ret.op = "__add__"
    => /\ ret.err = ""
       /\ ItemsEq(ret.value.items, ret.value.a \o ret.value.b)
       /\ ret.value.len = Len(ret.value.a) + Len(ret.value.b)

\* the part of C20 about the count, and the sums of collections whose items
\* all have the same columns
C20_SumOfOneSchema ==
    (ret.op = "__add__" /\ ret.err = "")
    => /\ ret.value.len = Len(ret.value.a) + Len(ret.value.b)
       /\ Len(ret.value.items) = ret.value.len
       /\ (\A i, j \in 1..Len(ret.value.a \o ret.value.b) :
                DOMAIN serialize_item((ret.value.a \o ret.value.b)[i]).map
                    = DOMAIN serialize_item((ret.value.a \o ret.value.b)[j]).map)
            => ItemsEq(ret.value.items, ret.value.a \o ret.value.b)

C24_SuppliedIdIsKept ==
    ret.op = "_read_dictable_from_csv"
    => \A i \in 1..Len(ret.value) :
        LET supplied == {j \in 1..Len(arg.header) :
                            arg.header[j] = <<<<"id">>>> /\ arg.rows[i][j] # ""}
        IN  ret.value[i][<<"id">>] =
                IF supplied # {} THEN PyStr(arg.rows[i][CHOOSE j \in supplied : TRUE])
                ELSE PyStr(arg.resource_name \o ":" \o ToString(i + 1))

\* the statement of C24 for the rows that give no id
C24_SyntheticId ==
    ret.op = "_read_dictable_from_csv"
    => \A i \in 1..Len(ret.value) :
        (\A j \in 1..Len(arg.header) : arg.header[j] = <<<<"id">>>> => arg.rows[i][j] = "")
        => ret.value[i][<<"id">>] = PyStr(arg.resource_name \o ":" \o ToString(i + 1))

\* C25: the first row written is the sorted names of the flat fields of the
\* items written, and the row of every item has each of its flat fields
\* under its name and an empty field under every other name
C25_EveryFieldIsWritten ==
    (ret.op = "_write_dictable_to_csv" /\ ret.err = "" /\ arg # <<>>)
    => LET flat == [i \in 1..Len(arg) |-> serialize_item(arg[i]).map]
           names == UNION {{ColumnText(name) : name \in DOMAIN flat[i]} : i \in 1..Len(arg)}
           header == ret.value[1]
       IN  /\ {header[j].v : j \in 1..Len(header)} = names
           /\ Len(header) = Cardinality(names)
           /\ Len(ret.value) = Len(arg) + 1
           /\ \A i \in 1..Len(arg) : \A name \in DOMAIN flat[i] :
                \E j \in 1..Len(header) :
                    /\ header[j].v = ColumnText(name)
                    /\ ret.value[i + 1][j] = IF flat[i][name] = None THEN PyStr("")
                                              ELSE flat[i][name]
           /\ \A i \in 1..Len(arg) : \A j \in 1..Len(header) :
                (\A name \in DOMAIN flat[i] : ColumnText(name) # header[j].v)
                => ret.value[i + 1][j] = PyStr("")

\* the statement of C25 for items that all have the flat fields of the first
C25_FieldsOfFirstItem ==
    (/\ ret.op = "_write_dictable_to_csv" /\ ret.err = "" /\ arg # <<>>
     /\ \A i \in 1..Len(arg) :
            DOMAIN serialize_item(arg[i]).map \subseteq DOMAIN serialize_item(arg[1]).map)
    => LET flat == [i \in 1..Len(arg) |-> serialize_item(arg[i]).map]
           names == UNION {{ColumnText(name) : name \in DOMAIN flat[i]} : i \in 1..Len(arg)}
           header == ret.value[1]
       IN  /\ {header[j].v : j \in 1..Len(header)} = names
           /\ Len(header) = Cardinality(names)
           /\ Len(ret.value) = Len(arg) + 1
           /\ \A i \in 1..Len(arg) : \A name \in DOMAIN flat[i] :
                \E j \in 1..Len(header) :
                    /\ header[j].v = ColumnText(name)
                    /\ ret.value[i + 1][j] = IF flat[i][name] = None THEN PyStr("")
                                              ELSE flat[i][name]
           /\ \A i \in 1..Len(arg) : \A j \in 1..Len(header) :
                (\A name \in DOMAIN flat[i] : ColumnText(name) # header[j].v)
                => ret.value[i + 1][j] = PyStr("")

\* C26: get returns None when search finds no antenna, the antenna when it
\* finds one and, when it finds more, what the policy of the collection
\* returns or raises, the policy being drop when none was given
C26_GetAppliesPolicy ==
    ret.op = "get"
    => LET policy == IF arg.on_duplicate = "" THEN "drop" ELSE arg.on_duplicate
       IN  /\ Len(arg.results) = 0 => (ret.err = "" /\ ret.value.value = None)
           /\ Len(arg.results) = 1 => (ret.err = "" /\ ret.value.value = arg.results[1])
           /\ Len(arg.results) > 1
                => /\ ret.err = IF policy = "exception" THEN "ValueError" ELSE ""
                   /\ ret.value.value = IF policy \in {"warn", "take_first"}
                                         THEN arg.results[1] ELSE None

\* the statement of C26 for the collections that were given a policy
C26_GetAppliesGivenPolicy ==
    (ret.op = "get" /\ arg.on_duplicate # "")
    => /\ Len(arg.results) = 0 => (ret.err = "" /\ ret.value.value = None)
       /\ Len(arg.results) = 1 => (ret.err = "" /\ ret.value.value = arg.results[1])
       /\ Len(arg.results) > 1
            => /\ ret.err = IF arg.on_duplicate = "exception" THEN "ValueError" ELSE ""
               /\ ret.value.value = IF arg.on_duplicate \in {"warn", "take_first"}
                                     THEN arg.results[1] ELSE None

\* C27: the identities parsed from two specs are equal exactly when the specs
\* have the same radio (whatever its case) and the same numbers, and
\* identities that are equal have the same hash
C27_ParseEqualsOnComponents ==
    (ret.op = "parse" /\ ret.err = "")
    => LET Same(radio) == IF radio = PyStr("gsm") THEN PyStr("GSM") ELSE radio
       IN  /\ ret.value.eq
                <=> /\ Same(arg[1].radio) = Same(arg[2].radio)
                    /\ \A part \in {"mcc", "mnc", "lac", "ci", "eci"} :
                            arg[1][part] = arg[2][part]
           /\ ret.value.eq => ret.value.hash[1] = ret.value.hash[2]

\* the statement of C27 for the specs without a radio, the GSM specs without
\* an eci and the LTE specs without lac and ci, and the hashes of all specs
C27_ParseOfFittingSpecs ==
    (ret.op = "parse" /\ ret.err = "")
    => LET Same(radio) == IF radio = PyStr("gsm") THEN PyStr("GSM") ELSE radio
           Fits(spec) == /\ Same(spec.radio) = PyStr("GSM") => spec.eci = None
                         /\ spec.radio = PyStr("LTE") => spec.lac = None
       IN  /\ (Fits(arg[1]) /\ Fits(arg[2]))
                => (ret.value.eq
                    <=> /\ Same(arg[1].radio) = Same(arg[2].radio)
                        /\ \A part \in {"mcc", "mnc", "lac", "ci", "eci"} :
                                arg[1][part] = arg[2][part])
           /\ ret.value.eq => ret.value.hash[1] = ret.value.hash[2]
           /\ ret.value.eq = __eq__(ret.value.b, ret.value.a)

(***************************************************************************)
(* Properties of the serialization.                                        *)
(***************************************************************************)
\* C2: a dict that _collapse_dict accepts comes back from _expand_dict equal
\* to what it was
C2_ExpandInvertsCollapse ==
    ret.op = "_expand_dict" => (ret.err = "" /\ PyEq(Dict(ret.value), Dict(ret.of)))

\* C3: what a serializer made of a key and a value it takes is deserialized
\* to that key and that value
C3_CodecRoundTrip ==
    ret.op = "from_dict"
    => /\ ret.err = ""
       /\ ret.value[1] = arg.key
       /\ PyEq(ret.value[2], arg.value)

\* C15: a flat value that is malformed for the serializer its key selects, a
\* text that is no true or false literal under a flag key or a point without
\* lat or lon, makes _expand_dict raise an error
C15_MalformedIsReported ==
    (/\ ret.op = "_expand_dict"
     /\ \/ /\ IsFlagKey(arg.key) /\ arg.value.t = "str"
           /\ arg.value.v \notin {"1", "true", "0", "false"}
        \/ /\ HasTypeIndicator("wgs84", arg.key) /\ arg.value.t = "dict"
           /\ ~({<<"lat">>, <<"lon">>} \subseteq DOMAIN arg.value.v)
           /\ arg.value.v # EmptyMap)
    => ret.err # ""

\* C16: a key and a value are serialized, and the result deserialized, by the
\* first serializer that takes them in the order flag key, integer, float,
\* angle, timestamp, duration, point, cell, location info
C16_FixedPriority ==
    ret.op = "_serialize_property"
    => LET order == <<"bool", "int", "float", "degrees", "timestamp", "timedelta",
                      "wgs84", "cell", "geo">>
           p == _serialize_property(order, arg.key, arg.value, {})
       IN  /\ ret.err = p.err
           /\ ret.value = <<p.key, p.value>>
           /\ _deserialize_property(CELL_MEASUREMENT_SERIALIZERS, ret.value[1], ret.value[2])
                = _deserialize_property(order, ret.value[1], ret.value[2])

====
